---- MODULE Spec2Model ----
(***************************************************************************)
(* Real-time relay core of the chat backend: the presence registries, the  *)
(* socket.io rooms, the socket event handlers of src/lib/socket.js and the *)
(* routing step of the HTTP command handlers.                              *)
(*                                                                         *)
(* JavaScript strings are sequences of one-character strings, so that the  *)
(* default sort and join of the room key are computed, not assumed.  The   *)
(* JavaScript value undefined is the one-element sequence Undefined, whose *)
(* element is not a character.                                             *)
(***************************************************************************)
EXTENDS Integers, Sequences, FiniteSets, TLC

VARIABLES
  userSocketMap,     \* socket.js:17, insertion-ordered {userId: socketId}
  expertSocketMap,   \* socket.js:18, insertion-ordered {expertId: socketId}
  nextSocket,        \* number of connections the transport accepted so far
  connected,         \* ids of the sockets that are connected (io.sockets)
  rooms,             \* socket id -> set of rooms of that socket (socket.rooms)
  handshake,         \* socket id -> <<userId, expertId>> of socket.handshake.query
  presence,          \* io.emit broadcasts of the most recent handler
  delivered,         \* io.to(..).emit events of the most recent handler
  lastOnlineUsers,   \* payload of the most recent getOnlineUsers broadcast
  lastOnlineExperts, \* payload of the most recent getOnlineExperts broadcast
  last,              \* the most recent handler invocation and its arguments
  args,              \* room-key specification: the pair of identities
  roomId,            \* room-key specification: the key computed for args
  sessions,          \* documents of the experttoexpertsessions collection
  committed,         \* store operations of the HTTP command handlers that succeeded
  inbox,             \* socket id -> the events the transport wrote to that socket
  routed,            \* number of io.to(..).emit calls made so far
  request,           \* reply specification: a sendMessage request and a lookup result
  reply,             \* reply specification: what res.status(..).json(..) sent
  joinLog,           \* joinRoom calls repeated by a socket, and rooms that went
                     \* with a disconnected socket
  messages,          \* documents of the messages and expertMessages collections
  tasks,             \* request number -> the HTTP request in progress: where it
                     \* awaits, its locals and its answer
  journal,           \* the io.to(..).emit calls of the requests, in order
  clock,             \* what new Date() returns
  seen               \* socket id -> the payloads of the last getOnlineUsers and
                     \* getOnlineExperts that socket was sent

relayVars == <<userSocketMap, expertSocketMap, nextSocket, connected, rooms,
               handshake, presence, delivered, lastOnlineUsers, lastOnlineExperts, last>>
keyVars == <<args, roomId>>
wireVars == <<inbox, routed>>
replyVars == <<request, reply>>
joinVars == <<joinLog>>
storeVars == <<messages>>
taskVars == <<tasks, journal, clock>>
viewVars == <<seen>>
otherVars == <<sessions, committed, wireVars, replyVars, joinVars, storeVars, taskVars,
               viewVars>>
vars == <<relayVars, keyVars, otherVars>>

----------------------------------------------------------------------------
(* Bounds *)

\* connections the transport accepts in a run
MaxSockets == 2
\* length of the identity tokens the room key is computed for
MaxLen == 3
\* emits whose arrival at the sockets is followed
MaxEvents == 2

----------------------------------------------------------------------------
(* JavaScript values *)

Undefined == <<"<undefined>">>
EmptyString == <<>>
Placeholder == <<"u", "n", "d", "e", "f", "i", "n", "e", "d">>

Truthy(v) == v # Undefined /\ v # EmptyString

\* v1 || v2
Or(v1, v2) == IF Truthy(v1) THEN v1 ELSE v2

\* UTF-16 code unit of a character
CharCode(c) ==
  CASE c = "-" -> 45
    [] c = "1" -> 49
    [] c = "2" -> 50
    [] c = "a" -> 97
    [] c = "b" -> 98
    [] c = "d" -> 100
    [] c = "e" -> 101
    [] c = "f" -> 102
    [] c = "i" -> 105
    [] c = "n" -> 110
    [] c = "u" -> 117

\* String(v): what sort and property access see
JsString(v) == IF v = Undefined THEN Placeholder ELSE v

\* x < y on strings, by code units
StrLess(x, y) ==
  \E i \in 1..Len(y) :
    /\ \A j \in 1..(i - 1) : j <= Len(x) /\ x[j] = y[j]
    /\ \/ i = Len(x) + 1
       \/ i <= Len(x) /\ CharCode(x[i]) < CharCode(y[i])

\* [a, b].sort(): undefined goes last, the rest by string comparison; stable
Sort2(a, b) ==
  IF a = Undefined THEN <<b, a>>
  ELSE IF b = Undefined THEN <<a, b>>
  ELSE IF StrLess(JsString(b), JsString(a)) THEN <<b, a>> ELSE <<a, b>>

\* element of join: undefined becomes the empty string
JoinItem(v) == IF v = Undefined THEN EmptyString ELSE v

\* pair.join(sep)
Join2(pair, sep) == JoinItem(pair[1]) \o sep \o JoinItem(pair[2])

\* variant: the pair is joined as given
RoomKeyUnsorted(a, b) == Join2(<<a, b>>, <<"-">>)

\* [a, b].sort().join("-")
RoomKey(a, b) == Join2(Sort2(a, b), <<"-">>)

----------------------------------------------------------------------------
(* Plain objects used as maps: sequences of entries in insertion order *)

MapKeys(m) == [i \in 1..Len(m) |-> m[i].key]

\* Object.keys(m).find(pred): first key in insertion order, else undefined
RECURSIVE FindKey(_, _, _)
FindKey(m, id, i) ==
  IF i > Len(m) THEN Undefined
  ELSE IF m[i].val = id THEN m[i].key
  ELSE FindKey(m, id, i + 1)

\* m[k]
MapGet(m, k) ==
  IF \E i \in 1..Len(m) : m[i].key = JsString(k)
  THEN LET i == CHOOSE i \in 1..Len(m) : m[i].key = JsString(k) IN m[i].val
  ELSE Undefined

\* variant: an identity that is registered keeps its first socket
MapSetFirstWins(m, k, v) ==
  IF \E i \in 1..Len(m) : m[i].key = k THEN m
  ELSE Append(m, [key |-> k, val |-> v])

\* m[k] = v
MapSet(m, k, v) ==
  IF \E i \in 1..Len(m) : m[i].key = k
  THEN [i \in 1..Len(m) |-> IF m[i].key = k THEN [key |-> k, val |-> v] ELSE m[i]]
  ELSE Append(m, [key |-> k, val |-> v])

\* variant: the delete names a property the object does not have
MapDeleteMiss(m, k) == m

\* delete m[k]
MapDelete(m, k) ==
  LET keep(e) == e.key # k IN SelectSeq(m, keep)

Range(s) == {s[i] : i \in 1..Len(s)}

----------------------------------------------------------------------------
(* Identities and inputs *)

U1 == <<"u", "1">>
E1 == <<"e", "1">>
E2 == <<"e", "2">>
E3 == <<"e", "3">>

Idents == {U1, E1, E2}

\* handshake query values: absent, empty, the placeholder, or a token
UserClaims == {Undefined, EmptyString, Placeholder, U1, E1}
ExpertClaims == {Undefined, EmptyString, Placeholder, E1, E2}

\* claims that register nothing besides the absent one
Rejected == {EmptyString, Placeholder}

\* (senderId, receiverId) of the payload of a client event; the last one is
\* a payload without these fields
Payloads == {<<U1, E1>>, <<E1, U1>>, <<E1, E2>>, <<Undefined, Undefined>>}

RoomPayloads == Payloads \cup {<<E2, E1>>}

\* (senderId, receiverId) of the records the HTTP command handlers work on
StoredPairs == {<<U1, E1>>, <<E1, U1>>, <<E1, E2>>}

RoomPairs == StoredPairs \cup {<<E2, E1>>}

\* session documents the store may hold; none is written by these handlers
SessionDocs ==
  {[consultingExpertID |-> E1, expertId |-> E3, status |-> "confirmed"],
   [consultingExpertID |-> E2, expertId |-> E1, status |-> "confirmed"],
   [consultingExpertID |-> E1, expertId |-> E2, status |-> "pending"]}

\* room names a client asks to join
JoinInputs == {RoomKey(E1, E2), RoomKey(U1, E1)}

\* identity tokens the room key is computed for: the strings of 1..MaxLen
\* characters, the separator among them (no handler checks a token)
Alphabet == {"-", "a", "b"}
Tokens == UNION {[1..n -> Alphabet] : n \in 1..MaxLen}

\* the id the transport gives to the n-th connection; "#" is outside the
\* characters of identity tokens: socket ids are random and not guessable
SocketId(n) == <<"#", ToString(n)>>

----------------------------------------------------------------------------
(* The transport: io.emit and io.to(room).emit *)

\* variant: the room is not looked at, as with io.emit
SocketsInNamespace(room) == connected

\* sockets that are in a room; every socket is in the room named by its id
SocketsIn(room) == {s \in connected : room \in rooms[s]}

\* io.emit(event, keys): to every connected socket
Broadcast(event, keys, to) == [event |-> event, keys |-> keys, to |-> to]

\* variant: the receiver's registered socket is addressed besides the room,
\* the way the direct-delivery relay addresses an expert
EmitAlsoToReceiver(event, room, senderId, receiverId) ==
  [event |-> event, room |-> room,
   to |-> SocketsIn(room) \cup ({MapGet(expertSocketMap, receiverId)} \cap connected),
   senderId |-> senderId, receiverId |-> receiverId]

\* io.to(room).emit(event, {senderId, receiverId, ...})
Emit(event, room, senderId, receiverId) ==
  [event |-> event, room |-> room, to |-> SocketsIn(room),
   senderId |-> senderId, receiverId |-> receiverId]

Call(op, sock, a, b, ok) == [op |-> op, sock |-> sock, a |-> a, b |-> b, ok |-> ok]

NoBroadcast == <<Undefined>>

getReceiverSocketId(userId) == MapGet(userSocketMap, userId)

getExpertSocketId(expertId) == MapGet(expertSocketMap, expertId)

\* variant: the user registry alone is consulted
ReceiverSocketIdUsersOnly(receiverId) == MapGet(userSocketMap, receiverId)

\* variant: the expert registry is consulted first
ReceiverSocketIdExpertFirst(receiverId) ==
  Or(MapGet(expertSocketMap, receiverId), MapGet(userSocketMap, receiverId))

\* userSocketMap[receiverId] || expertSocketMap[receiverId]
ReceiverSocketId(receiverId) ==
  Or(MapGet(userSocketMap, receiverId), MapGet(expertSocketMap, receiverId))

Latest(seq, event, old) ==
  LET hits == {i \in 1..Len(seq) : seq[i].event = event}
  IN IF hits = {} THEN old
     ELSE seq[CHOOSE i \in hits : \A j \in hits : j <= i].keys

----------------------------------------------------------------------------
(* Initial state: socket.js:17-18, nothing connected *)

InitRelay ==
  /\ userSocketMap = <<>>
  /\ expertSocketMap = <<>>
  /\ nextSocket = 0
  /\ connected = {}
  /\ rooms = <<>>
  /\ handshake = <<>>
  /\ presence = <<>>
  /\ delivered = <<>>
  /\ lastOnlineUsers = NoBroadcast
  /\ lastOnlineExperts = NoBroadcast
  /\ last = Call("start", Undefined, Undefined, Undefined, TRUE)

InitKey ==
  /\ args = <<Undefined, Undefined>>
  /\ roomId = Undefined

\* no session is confirmed, nothing was written to a socket, no request
InitOther ==
  /\ sessions = {}
  /\ committed = {}
  /\ inbox = <<>>
  /\ routed = 0
  /\ request = Undefined
  /\ reply = Undefined
  /\ joinLog = [rejoined |-> {}, dropped |-> {}]
  /\ messages = {}
  /\ tasks = <<>>
  /\ journal = <<>>
  /\ clock = 0
  /\ seen = <<>>

Init == InitRelay /\ InitKey /\ InitOther

----------------------------------------------------------------------------
(* io.on("connection"): socket.js:28-50 *)

\* if (userId && userId !== "undefined")
Registers(claim) == Truthy(claim) /\ claim # Placeholder

\* variant: the experts' list is never sent
SnapshotUsersOnly(event, changed, map, live) ==
  IF changed /\ event = "getOnlineUsers"
  THEN <<Broadcast(event, MapKeys(map), live)>> ELSE <<>>

\* variant: the list is sent whether the space changed or not
SnapshotAlways(event, changed, map, live) ==
  <<Broadcast(event, MapKeys(map), live)>>

\* if the space changed: io.emit(event, Object.keys(map))
Snapshot(event, changed, map, live) ==
  IF changed THEN <<Broadcast(event, MapKeys(map), live)>> ELSE <<>>

\* variant: the expert identity is stored in the user registry as well
ConnectionOneRegistry(userId, expertId) ==
  /\ LET id == SocketId(nextSocket + 1)
         live == connected \cup {id}
         both == IF Registers(userId)
                 THEN MapSet(userSocketMap, userId, id) ELSE userSocketMap
         users == IF Registers(expertId) THEN MapSet(both, expertId, id) ELSE both
         experts == IF Registers(expertId)
                    THEN MapSet(expertSocketMap, expertId, id) ELSE expertSocketMap
         out == Snapshot("getOnlineUsers", Registers(userId), users, live)
                \o Snapshot("getOnlineExperts", Registers(expertId), experts, live)
     IN /\ nextSocket' = nextSocket + 1
        /\ connected' = live
        /\ rooms' = [s \in live |-> IF s = id THEN {id} ELSE rooms[s]]
        /\ handshake' = [s \in live |->
                            IF s = id THEN <<userId, expertId>> ELSE handshake[s]]
        /\ userSocketMap' = users
        /\ expertSocketMap' = experts
        /\ presence' = out
        /\ lastOnlineUsers' = Latest(out, "getOnlineUsers", lastOnlineUsers)
        /\ lastOnlineExperts' = Latest(out, "getOnlineExperts", lastOnlineExperts)
        /\ delivered' = <<>>
        /\ last' = Call("connection", id, userId, expertId, TRUE)
  /\ UNCHANGED keyVars

\* variant: the connection that held a claimed identity before is closed
ConnectionClosingOld(userId, expertId) ==
  /\ LET id == SocketId(nextSocket + 1)
         old == (IF Registers(userId) THEN {MapGet(userSocketMap, userId)} ELSE {})
                \cup (IF Registers(expertId)
                      THEN {MapGet(expertSocketMap, expertId)} ELSE {})
         live == (connected \ old) \cup {id}
         users == IF Registers(userId)
                  THEN MapSet(userSocketMap, userId, id) ELSE userSocketMap
         experts == IF Registers(expertId)
                    THEN MapSet(expertSocketMap, expertId, id) ELSE expertSocketMap
         out == Snapshot("getOnlineUsers", Registers(userId), users, live)
                \o Snapshot("getOnlineExperts", Registers(expertId), experts, live)
     IN /\ nextSocket' = nextSocket + 1
        /\ connected' = live
        /\ rooms' = [s \in live |-> IF s = id THEN {id} ELSE rooms[s]]
        /\ handshake' = [s \in live |->
                            IF s = id THEN <<userId, expertId>> ELSE handshake[s]]
        /\ userSocketMap' = users
        /\ expertSocketMap' = experts
        /\ presence' = out
        /\ lastOnlineUsers' = Latest(out, "getOnlineUsers", lastOnlineUsers)
        /\ lastOnlineExperts' = Latest(out, "getOnlineExperts", lastOnlineExperts)
        /\ delivered' = <<>>
        /\ last' = Call("connection", id, userId, expertId, TRUE)
  /\ UNCHANGED keyVars

Connection(userId, expertId) ==
  /\ LET id == SocketId(nextSocket + 1)
         live == connected \cup {id}
         users == IF Registers(userId)
                  THEN MapSet(userSocketMap, userId, id) ELSE userSocketMap
         experts == IF Registers(expertId)
                    THEN MapSet(expertSocketMap, expertId, id) ELSE expertSocketMap
         out == Snapshot("getOnlineUsers", Registers(userId), users, live)
                \o Snapshot("getOnlineExperts", Registers(expertId), experts, live)
     IN /\ nextSocket' = nextSocket + 1
        /\ connected' = live
        /\ rooms' = [s \in live |-> IF s = id THEN {id} ELSE rooms[s]]
        /\ handshake' = [s \in live |->
                            IF s = id THEN <<userId, expertId>> ELSE handshake[s]]
        /\ userSocketMap' = users
        /\ expertSocketMap' = experts
        /\ presence' = out
        /\ lastOnlineUsers' = Latest(out, "getOnlineUsers", lastOnlineUsers)
        /\ lastOnlineExperts' = Latest(out, "getOnlineExperts", lastOnlineExperts)
        /\ delivered' = <<>>
        /\ last' = Call("connection", id, userId, expertId, TRUE)
  /\ UNCHANGED keyVars

(* io.on("connection") of the direct-delivery relay,                       *)
(* routes/Expert.message.route.js:173-195: if (userId), if (expertId)       *)
LegacyConnection(userId, expertId) ==
  /\ LET id == SocketId(nextSocket + 1)
         live == connected \cup {id}
         users == IF Truthy(userId)
                  THEN MapSet(userSocketMap, JsString(userId), id) ELSE userSocketMap
         experts == IF Truthy(expertId)
                    THEN MapSet(expertSocketMap, JsString(expertId), id)
                    ELSE expertSocketMap
         out == Snapshot("getOnlineUsers", Truthy(userId), users, live)
                \o Snapshot("getOnlineExperts", Truthy(expertId), experts, live)
     IN /\ nextSocket' = nextSocket + 1
        /\ connected' = live
        /\ rooms' = [s \in live |-> IF s = id THEN {id} ELSE rooms[s]]
        /\ handshake' = [s \in live |->
                            IF s = id THEN <<userId, expertId>> ELSE handshake[s]]
        /\ userSocketMap' = users
        /\ expertSocketMap' = experts
        /\ presence' = out
        /\ lastOnlineUsers' = Latest(out, "getOnlineUsers", lastOnlineUsers)
        /\ lastOnlineExperts' = Latest(out, "getOnlineExperts", lastOnlineExperts)
        /\ delivered' = <<>>
        /\ last' = Call("connection", id, userId, expertId, TRUE)
  /\ UNCHANGED keyVars

(* socket.on("disconnect"): socket.js:191-219.  The transport has already   *)
(* taken the socket out of its rooms and of the namespace when the handler  *)
(* runs.                                                                    *)
\* variant: the identity is found by the socket's claim, not by its handle
DisconnectedIdByClaim(map, id) ==
  LET mine == {i \in 1..Len(map) : map[i].key \in Range(handshake[id])}
  IN IF mine = {} THEN Undefined ELSE map[CHOOSE i \in mine : TRUE].key

\* variant: the key itself, not the handle stored under it, is compared
DisconnectedIdByKey(map, id) ==
  LET mine == {i \in 1..Len(map) : map[i].key = id}
  IN IF mine = {} THEN Undefined ELSE map[CHOOSE i \in mine : TRUE].key

\* Object.keys(map).find((key) => map[key] === socket.id)
DisconnectedId(map, id) == FindKey(map, id, 1)

Disconnect(s) ==
  /\ s \in connected
  /\ LET live == connected \ {s}
         disconnectedUserId == DisconnectedId(userSocketMap, s)
         users == IF Truthy(disconnectedUserId)
                  THEN MapDelete(userSocketMap, disconnectedUserId)
                  ELSE userSocketMap
         disconnectedExpertId == DisconnectedId(expertSocketMap, s)
         experts == IF Truthy(disconnectedExpertId)
                    THEN MapDelete(expertSocketMap, disconnectedExpertId)
                    ELSE expertSocketMap
         out == Snapshot("getOnlineUsers", Truthy(disconnectedUserId), users, live)
                \o Snapshot("getOnlineExperts", Truthy(disconnectedExpertId),
                            experts, live)
     IN /\ connected' = live
        /\ rooms' = [t \in live |-> rooms[t]]
        /\ handshake' = [t \in live |-> handshake[t]]
        /\ userSocketMap' = users
        /\ expertSocketMap' = experts
        /\ presence' = out
        /\ lastOnlineUsers' = Latest(out, "getOnlineUsers", lastOnlineUsers)
        /\ lastOnlineExperts' = Latest(out, "getOnlineExperts", lastOnlineExperts)
        /\ delivered' = <<>>
        /\ last' = Call("disconnect", s, handshake[s][1], handshake[s][2], TRUE)
  /\ UNCHANGED <<nextSocket, keyVars>>

(* socket.on("joinRoom"): socket.js:53-56 *)
\* variant: only a socket registered as one of the two experts of the key is
\* subscribed
JoinRoomIfParty(s, room) ==
  /\ s \in connected
  /\ rooms' = [rooms EXCEPT ![s] =
                 IF /\ getExpertSocketId(handshake[s][2]) = s
                    /\ \E other \in Idents : room = RoomKey(handshake[s][2], other)
                 THEN @ \cup {room} ELSE @]
  /\ presence' = <<>>
  /\ delivered' = <<>>
  /\ last' = Call("joinRoom", s, room, Undefined, TRUE)
  /\ UNCHANGED <<userSocketMap, expertSocketMap, nextSocket, connected,
                 handshake, lastOnlineUsers, lastOnlineExperts, keyVars>>

\* variant: joining a room the socket is in already leaves the room
JoinRoomToggle(s, room) ==
  /\ s \in connected
  /\ rooms' = [rooms EXCEPT ![s] = IF room \in @ THEN @ \ {room} ELSE @ \cup {room}]
  /\ presence' = <<>>
  /\ delivered' = <<>>
  /\ last' = Call("joinRoom", s, room, Undefined, TRUE)
  /\ UNCHANGED <<userSocketMap, expertSocketMap, nextSocket, connected,
                 handshake, lastOnlineUsers, lastOnlineExperts, keyVars>>

JoinRoom(s, room) ==
  /\ s \in connected
  /\ rooms' = [rooms EXCEPT ![s] = @ \cup {room}]
  /\ presence' = <<>>
  /\ delivered' = <<>>
  /\ last' = Call("joinRoom", s, room, Undefined, TRUE)
  /\ UNCHANGED <<userSocketMap, expertSocketMap, nextSocket, connected,
                 handshake, lastOnlineUsers, lastOnlineExperts, keyVars>>

----------------------------------------------------------------------------
(* Handlers that only route: the registries and the rooms stay as they are *)

\* variant: a handler that routes broadcasts the users' list as well
RoutedWithSnapshot(op, sock, a, b, ok, out) ==
  /\ delivered' = out
  /\ presence' = <<Broadcast("getOnlineUsers", MapKeys(userSocketMap), connected)>>
  /\ last' = Call(op, sock, a, b, ok)
  /\ UNCHANGED <<userSocketMap, expertSocketMap, nextSocket, connected, rooms,
                 handshake, lastOnlineUsers, lastOnlineExperts, keyVars>>

Routed(op, sock, a, b, ok, out) ==
  /\ delivered' = out
  /\ presence' = <<>>
  /\ last' = Call(op, sock, a, b, ok)
  /\ UNCHANGED <<userSocketMap, expertSocketMap, nextSocket, connected, rooms,
                 handshake, lastOnlineUsers, lastOnlineExperts, keyVars>>

\* variant: io.emit in place of io.to(receiverSocketId).emit
EmitToAllIfOnline(socketId, event, senderId, receiverId) ==
  IF Truthy(socketId)
  THEN <<[Emit(event, socketId, senderId, receiverId) EXCEPT !.to = connected]>>
  ELSE <<>>

\* if (receiverSocketId) io.to(receiverSocketId).emit(event, payload)
EmitIfOnline(socketId, event, senderId, receiverId) ==
  IF Truthy(socketId) THEN <<Emit(event, socketId, senderId, receiverId)>> ELSE <<>>

(* A client event emitted without an argument: the handler's parameter is  *)
(* undefined, and reading its receiverId or senderId throws a TypeError     *)
(* before anything is emitted: socket.js:65, 92, 105, 119, 143, 155, 170,   *)
(* 184.  No handler has a try block.                                        *)
OnEventWithoutPayload(s, event) ==
  /\ s \in connected
  /\ Routed(event, s, Undefined, Undefined, FALSE, <<>>)

(* socket.on("sendMessage"): socket.js:61-85 *)
OnSendMessage(s, senderId, receiverId) ==
  /\ s \in connected
  /\ Routed("on:sendMessage", s, senderId, receiverId, TRUE,
            EmitIfOnline(ReceiverSocketId(receiverId), "newMessage",
                         senderId, receiverId))

(* socket.on("messageEdited"): socket.js:88-98 *)
OnMessageEdited(s, senderId, receiverId) ==
  /\ s \in connected
  /\ Routed("on:messageEdited", s, senderId, receiverId, TRUE,
            EmitIfOnline(ReceiverSocketId(receiverId), "messageEdited",
                         senderId, receiverId))

(* socket.on("messageDeleted"): socket.js:101-113; the payload that is sent *)
(* holds messageId and fileId only                                         *)
OnMessageDeleted(s, senderId, receiverId) ==
  /\ s \in connected
  /\ Routed("on:messageDeleted", s, senderId, receiverId, TRUE,
            EmitIfOnline(ReceiverSocketId(receiverId), "messageDeleted",
                         Undefined, Undefined))

(* socket.on("allMessagesDeleted"): socket.js:116-135 *)
OnAllMessagesDeleted(s, senderId, receiverId) ==
  /\ s \in connected
  /\ Routed("on:allMessagesDeleted", s, senderId, receiverId, TRUE,
            EmitIfOnline(ReceiverSocketId(receiverId), "allMessagesDeleted",
                         senderId, receiverId))

(* socket.on("expertMessageEdited"): socket.js:140-149 *)
OnExpertMessageEdited(s, senderId, receiverId) ==
  /\ s \in connected
  /\ Routed("on:expertMessageEdited", s, senderId, receiverId, TRUE,
            <<Emit("expertMessageEdited", RoomKey(senderId, receiverId),
                   senderId, receiverId)>>)

(* socket.on("expertMessageDeleted"): socket.js:152-164 *)
OnExpertMessageDeleted(s, senderId, receiverId) ==
  /\ s \in connected
  /\ Routed("on:expertMessageDeleted", s, senderId, receiverId, TRUE,
            <<Emit("expertMessageDeleted", RoomKey(senderId, receiverId),
                   senderId, receiverId)>>)

(* socket.on("allExpertMessagesDeleted"): socket.js:167-177 *)
OnAllExpertMessagesDeleted(s, senderID, receiverID) ==
  /\ s \in connected
  /\ Routed("on:allExpertMessagesDeleted", s, senderID, receiverID, TRUE,
            <<Emit("allExpertMessagesDeleted", RoomKey(senderID, receiverID),
                   senderID, receiverID)>>)

(* socket.on("conversationDeleted"): socket.js:180-187 *)
OnConversationDeleted(s, senderId, receiverId) ==
  /\ s \in connected
  /\ Routed("on:conversationDeleted", s, senderId, receiverId, TRUE,
            <<Emit("conversationDeleted", RoomKey(senderId, receiverId),
                   senderId, receiverId)>>)

----------------------------------------------------------------------------
(* Routing step of the HTTP command handlers.  ok says that the request     *)
(* passed validation and authorisation and that its store operations        *)
(* succeeded; otherwise the handler answers before it reaches the emit.     *)

(* sendMessage: index.js:242-289 *)
sendMessage(senderId, receiverId, ok) ==
  /\ Routed("sendMessage", Undefined, senderId, receiverId, ok,
            IF ok
            THEN EmitIfOnline(getReceiverSocketId(receiverId), "newMessage",
                              senderId, receiverId)
            ELSE <<>>)

(* What sendMessage answers: index.js:247-288.  inserted says that          *)
(* insertOne returned; receiverSocketId is what the lookup of line 277     *)
(* gave.                                                                    *)
Response(status, message, senderId, receiverId, text) ==
  [status |-> status, message |-> message,
   senderId |-> senderId, receiverId |-> receiverId, text |-> text]

\* the handler reaches its emit: the fields are there and the insert returned
Accepted(senderId, receiverId, text, inserted) ==
  Truthy(senderId) /\ Truthy(receiverId) /\ Truthy(text) /\ inserted

\* variant: the answer says whether the receiver was reached
sendMessageReceipt(senderId, receiverId, text, inserted, receiverSocketId) ==
  IF ~Truthy(senderId) \/ ~Truthy(receiverId) \/ ~Truthy(text)
  THEN Response(400, "Missing required fields", Undefined, Undefined, Undefined)
  ELSE IF ~inserted
  THEN Response(500, "Internal Server Error", Undefined, Undefined, Undefined)
  ELSE IF Truthy(receiverSocketId)
  THEN Response(201, "", senderId, receiverId, text)
  ELSE Response(202, "", senderId, receiverId, text)

sendMessageResponse(senderId, receiverId, text, inserted, receiverSocketId) ==
  IF ~Truthy(senderId) \/ ~Truthy(receiverId) \/ ~Truthy(text)
  THEN Response(400, "Missing required fields", Undefined, Undefined, Undefined)
  ELSE IF ~inserted
  THEN Response(500, "Internal Server Error", Undefined, Undefined, Undefined)
  ELSE Response(201, "", senderId, receiverId, text)

\* the request served to its end: the routing step and the answer
sendMessageRequest(senderId, receiverId, text, inserted) ==
  /\ sendMessage(senderId, receiverId, Accepted(senderId, receiverId, text, inserted))
  /\ request' = [senderId |-> senderId, receiverId |-> receiverId, text |-> text,
                 inserted |-> inserted,
                 receiverSocketId |-> getReceiverSocketId(receiverId)]
  /\ reply' = sendMessageResponse(senderId, receiverId, text, inserted,
                                  getReceiverSocketId(receiverId))
  /\ UNCHANGED <<sessions, committed, wireVars, joinVars, storeVars, taskVars,
                 viewVars>>

(* deleteOneMessage: index.js:325-395; payload {messageID, senderID} *)
deleteOneMessage(senderID, receiverId, ok) ==
  /\ Routed("deleteOneMessage", Undefined, senderID, receiverId, ok,
            IF ok
            THEN EmitIfOnline(getReceiverSocketId(receiverId), "messageDeleted",
                              senderID, Undefined)
            ELSE <<>>)

(* deleteAllMessage: index.js:398-451 *)
deleteAllMessage(senderID, reciverID, ok) ==
  /\ Routed("deleteAllMessage", Undefined, senderID, reciverID, ok,
            IF ok
            THEN EmitIfOnline(getReceiverSocketId(reciverID), "allMessagesDeleted",
                              senderID, reciverID)
            ELSE <<>>)

(* editMessage: index.js:454-591; to the sender, then to the receiver *)
editMessage(senderId, receiverId, ok) ==
  /\ Routed("editMessage", Undefined, senderId, receiverId, ok,
            IF ok
            THEN EmitIfOnline(getReceiverSocketId(senderId), "messageEdited",
                              senderId, receiverId)
                 \o EmitIfOnline(getReceiverSocketId(receiverId), "messageEdited",
                                 senderId, receiverId)
            ELSE <<>>)

(* The three handlers as requests on the messages collection.  userId is   *)
(* req.user?._id || req.expert?._id, what the route's middleware set; the  *)
(* other arguments are fields of req.body.                                 *)

\* messages.findOne({_id}): the documents with that id
FindById(messageID) == {m \in messages : m.id = messageID}

Request(op, userId, messageID, senderID, reciverID) ==
  [op |-> op, userId |-> userId, messageID |-> messageID,
   senderID |-> senderID, reciverID |-> reciverID]

(* deleteOneMessage: index.js:325-395.  A message that is not found is      *)
(* answered 200 alreadyDeleted; new ObjectId(undefined) is a fresh id that *)
(* equals no senderId.                                                      *)
deleteOneMessageRequest(userId, messageID) ==
  LET found == FindById(messageID)
      message == CHOOSE m \in found : TRUE
      allowed == found # {} /\ message.senderId = userId
  IN /\ deleteOneMessage(userId,
                         IF found # {} THEN message.receiverId ELSE Undefined,
                         allowed)
     /\ messages' = IF allowed THEN messages \ found ELSE messages
     /\ request' = Request("deleteOneMessage", userId, messageID, Undefined, Undefined)
     /\ reply' = IF found = {}
                 THEN Response(200, "Message already deleted or not found",
                               Undefined, Undefined, Undefined)
                 ELSE IF ~allowed
                 THEN Response(403, "Not authorized to delete this message",
                               Undefined, Undefined, Undefined)
                 ELSE Response(200, "Message deleted successfully",
                               Undefined, Undefined, Undefined)
     /\ UNCHANGED <<sessions, committed, wireVars, joinVars, taskVars,
                 viewVars>>

\* the filter of deleteMany: index.js:418-423
BetweenThem(a, b) ==
  {m \in messages : \/ m.senderId = a /\ m.receiverId = b
                    \/ m.senderId = b /\ m.receiverId = a}

(* deleteAllMessage: index.js:398-452 *)
deleteAllMessageRequest(userId, senderID, reciverID) ==
  LET authorized == Truthy(userId) /\ senderID = userId
      matched == BetweenThem(senderID, reciverID)
      done == authorized /\ matched # {}
  IN /\ deleteAllMessage(senderID, reciverID, done)
     /\ messages' = IF done THEN messages \ matched ELSE messages
     /\ request' = Request("deleteAllMessage", userId, Undefined, senderID, reciverID)
     /\ reply' = IF ~authorized
                 THEN Response(403, "You are not authorized to delete these messages",
                               Undefined, Undefined, Undefined)
                 ELSE IF matched = {}
                 THEN Response(200, "No messages found to delete",
                               Undefined, Undefined, Undefined)
                 ELSE Response(200, "Messages deleted for everyone",
                               Undefined, Undefined, Undefined)
     /\ UNCHANGED <<sessions, committed, wireVars, joinVars, taskVars,
                 viewVars>>

(* editMessage: index.js:454-591; every refusal is answered 200 with       *)
(* success: false                                                           *)
editMessageRequest(userId, messageID, newText) ==
  LET found == FindById(messageID)
      message == CHOOSE m \in found : TRUE
      allowed == found # {} /\ Truthy(userId) /\ message.senderId = userId
  IN /\ editMessage(IF found # {} THEN message.senderId ELSE Undefined,
                    IF found # {} THEN message.receiverId ELSE Undefined,
                    allowed)
     /\ messages' = IF allowed
                    THEN (messages \ found)
                         \cup {[message EXCEPT !.text = newText, !.isEdited = TRUE]}
                    ELSE messages
     /\ request' = Request("editMessage", userId, messageID, Undefined, Undefined)
     /\ reply' = IF found = {}
                 THEN Response(200, "Message not found or has been deleted",
                               Undefined, Undefined, Undefined)
                 ELSE IF ~Truthy(userId)
                 THEN Response(200, "Authentication required",
                               Undefined, Undefined, Undefined)
                 ELSE IF ~allowed
                 THEN Response(200, "Only the sender can edit this message",
                               Undefined, Undefined, Undefined)
                 ELSE Response(200, "Message updated successfully",
                               message.senderId, message.receiverId, newText)
     /\ UNCHANGED <<sessions, committed, wireVars, joinVars, taskVars,
                 viewVars>>

(* uploadVoiceMessage: controller/voice.controller.js:125-286 *)
uploadVoiceMessage(senderId, receiverId, ok) ==
  /\ Routed("uploadVoiceMessage", Undefined, senderId, receiverId, ok,
            IF ok
            THEN EmitIfOnline(getReceiverSocketId(receiverId), "newMessage",
                              senderId, receiverId)
            ELSE <<>>)

(* deleteVoiceMessage: controller/voice.controller.js:622-733 *)
deleteVoiceMessage(senderID, receiverId, ok) ==
  /\ Routed("deleteVoiceMessage", Undefined, senderID, receiverId, ok,
            IF ok
            THEN EmitIfOnline(getReceiverSocketId(receiverId), "messageDeleted",
                              senderID, Undefined)
            ELSE <<>>)

(* uploadFile: file controller, unnamed/part_002:77-168 *)
uploadFile(senderId, receiverId, ok) ==
  /\ Routed("uploadFile", Undefined, senderId, receiverId, ok,
            IF ok
            THEN EmitIfOnline(getReceiverSocketId(receiverId), "newMessage",
                              senderId, receiverId)
            ELSE <<>>)

(* deleteFile: file controller, unnamed/part_002:360-427 *)
deleteFile(senderID, receiverId, ok) ==
  /\ Routed("deleteFile", Undefined, senderID, receiverId, ok,
            IF ok
            THEN EmitIfOnline(getReceiverSocketId(receiverId), "messageDeleted",
                              senderID, Undefined)
            ELSE <<>>)

(* sendExpertMessage: controller/voice.controller.js:922-978 *)
sendExpertMessage(senderId, receiverId, ok) ==
  /\ Routed("sendExpertMessage", Undefined, senderId, receiverId, ok,
            IF ok
            THEN <<Emit("newExpertMessage", RoomKey(senderId, receiverId),
                        senderId, receiverId)>>
            ELSE <<>>)

(* ExpertSessionMiddleware: middleware/expertSessionValidation.js:4-39.     *)
(* findOne({status: "confirmed", $or: [{consultingExpertID: req.expert._id},*)
(* {expertId: req.expert._id}]}); the request goes on when a document is    *)
(* found.                                                                   *)
ExpertSessionMiddleware(expert) ==
  \E d \in sessions :
    /\ d.status = "confirmed"
    /\ d.consultingExpertID = expert \/ d.expertId = expert

(* route.post("/expert-messages/send/:id", protectRoute,                    *)
(* ExpertSessionMiddleware, sendExpertMessage):                             *)
(* routes/Expert.message.route.js:49-54; the middleware answers 403 when    *)
(* it finds no session                                                      *)
expertMessagesSend(senderId, receiverId, ok) ==
  IF ExpertSessionMiddleware(senderId)
  THEN sendExpertMessage(senderId, receiverId, ok)
  ELSE Routed("sendExpertMessage", Undefined, senderId, receiverId, FALSE, <<>>)

----------------------------------------------------------------------------
(* The relay *)

\* the ids of the first max connections
Sockets(max) == {SocketId(n) : n \in 1..max}

\* connection and disconnection
Lifecycle(userClaims, expertClaims, max) ==
  \/ /\ nextSocket < max
     /\ \E u \in userClaims, e \in expertClaims : Connection(u, e)
  \/ \E s \in Sockets(max) : Disconnect(s)

Joining(max) ==
  \E s \in Sockets(max), room \in JoinInputs : JoinRoom(s, room)

\* client events of the user/expert direct channel
DirectEvents(max) ==
  \E s \in Sockets(max), p \in Payloads :
    \/ OnSendMessage(s, p[1], p[2])
    \/ OnMessageEdited(s, p[1], p[2])
    \/ OnMessageDeleted(s, p[1], p[2])
    \/ OnAllMessagesDeleted(s, p[1], p[2])

\* client events of the expert-to-expert channel
RoomEvents(max, payloads) ==
  \E s \in Sockets(max), p \in payloads :
    \/ OnExpertMessageEdited(s, p[1], p[2])
    \/ OnExpertMessageDeleted(s, p[1], p[2])
    \/ OnAllExpertMessagesDeleted(s, p[1], p[2])
    \/ OnConversationDeleted(s, p[1], p[2])

\* HTTP command handlers of the direct channel
DirectCommands ==
  \E p \in StoredPairs, ok \in BOOLEAN :
    \/ sendMessage(p[1], p[2], ok)
    \/ deleteOneMessage(p[1], p[2], ok)
    \/ deleteAllMessage(p[1], p[2], ok)
    \/ editMessage(p[1], p[2], ok)
    \/ uploadVoiceMessage(p[1], p[2], ok)
    \/ deleteVoiceMessage(p[1], p[2], ok)
    \/ uploadFile(p[1], p[2], ok)
    \/ deleteFile(p[1], p[2], ok)

\* HTTP command handlers of the expert-to-expert channel
RoomCommands ==
  \E p \in RoomPairs, ok \in BOOLEAN : sendExpertMessage(p[1], p[2], ok)

Next ==
  \/ Lifecycle(UserClaims, ExpertClaims, MaxSockets) /\ UNCHANGED otherVars
  \/ Joining(MaxSockets) /\ UNCHANGED otherVars
  \/ DirectEvents(MaxSockets) /\ UNCHANGED otherVars
  \/ RoomEvents(MaxSockets, RoomPayloads) /\ UNCHANGED otherVars
  \/ DirectCommands /\ UNCHANGED otherVars
  \/ RoomCommands /\ UNCHANGED otherVars

Spec == Init /\ [][Next]_vars

(* The handlers that route change neither registry, nor the set of         *)
(* connected sockets, nor a presence payload (Routed), so the presence      *)
(* properties are checked on the connection lifecycle alone, and the        *)
(* direct channel without the expert-to-expert events.  The three ways of   *)
(* making no claim register nothing alike; the direct channel keeps the     *)
(* absent claim only.                                                       *)

NextPresence ==
  /\ Lifecycle(UserClaims, ExpertClaims, MaxSockets)
  /\ UNCHANGED otherVars

SpecPresence == Init /\ [][NextPresence]_vars

NextDirect ==
  \/ /\ Lifecycle(UserClaims \ Rejected, ExpertClaims \ Rejected, MaxSockets)
     /\ UNCHANGED otherVars
  \/ DirectEvents(MaxSockets) /\ UNCHANGED otherVars
  \/ DirectCommands /\ UNCHANGED otherVars

SpecDirect == Init /\ [][NextDirect]_vars

(* The direct channel and the store.  An HTTP command handler awaits its    *)
(* store operation (insertOne, updateOne, deleteOne) and emits afterwards;  *)
(* committed keeps, per event name and pair, that such an operation         *)
(* succeeded.  The socket handlers call no store operation.                 *)

\* the event that an HTTP command handler emits for its store operation
StoreEvent(op) ==
  CASE op \in {"sendMessage", "uploadVoiceMessage", "uploadFile"} -> "newMessage"
    [] op = "editMessage" -> "messageEdited"
    [] op \in {"deleteOneMessage", "deleteVoiceMessage", "deleteFile"}
         -> "messageDeleted"
    [] op = "deleteAllMessage" -> "allMessagesDeleted"
    [] OTHER -> "none"

Commit ==
  /\ committed' =
       IF StoreEvent(last'.op) # "none" /\ last'.ok
       THEN committed \cup {<<StoreEvent(last'.op), last'.a, last'.b>>}
       ELSE committed
  /\ UNCHANGED <<sessions, wireVars, replyVars, joinVars, storeVars, taskVars,
                 viewVars>>

NextStore ==
  \/ /\ Lifecycle(UserClaims \ Rejected, ExpertClaims \ Rejected, MaxSockets)
     /\ Commit
  \/ /\ DirectEvents(MaxSockets)
     /\ Commit
  \/ /\ \E ok \in BOOLEAN :
          \/ sendMessage(U1, E1, ok)
          \/ editMessage(U1, E1, ok)
          \/ deleteOneMessage(U1, E1, ok)
     /\ Commit

SpecStore == Init /\ [][NextStore]_vars

(* What the sender of an HTTP sendMessage is answered, with the receiver    *)
(* online and offline.                                                      *)

\* text of a request body: a text, none, the empty one
Texts == {<<"a">>, Undefined, EmptyString}

NextReply ==
  \/ /\ Lifecycle(UserClaims \ Rejected, {Undefined}, MaxSockets)
     /\ UNCHANGED otherVars
  \/ \E senderId \in {U1, E1, Undefined}, receiverId \in {U1, E1, Undefined},
        text \in Texts, inserted \in BOOLEAN :
       sendMessageRequest(senderId, receiverId, text, inserted)

SpecReply == Init /\ [][NextReply]_vars

(* Two connections of one identity: the lifecycle, the rooms, and events of *)
(* both channels that concern expert e1.                                    *)

NextSupersede ==
  \/ Lifecycle({Undefined, E1}, {Undefined, E1}, MaxSockets) /\ UNCHANGED otherVars
  \/ Joining(MaxSockets) /\ UNCHANGED otherVars
  \/ RoomEvents(MaxSockets, RoomPayloads \ Payloads) /\ UNCHANGED otherVars
  \/ \E s \in Sockets(MaxSockets) :
       /\ \/ OnSendMessage(s, U1, E1)
          \/ OnMessageEdited(s, U1, E1)
          \/ OnMessageDeleted(s, U1, E1)
          \/ OnAllMessagesDeleted(s, U1, E1)
       /\ UNCHANGED otherVars

SpecSupersede == Init /\ [][NextSupersede]_vars

(* The connection lifecycle of the direct-delivery relay; its disconnect    *)
(* handler (routes/Expert.message.route.js:351-379) is that of socket.js.   *)

NextLegacy ==
  \/ /\ nextSocket < MaxSockets
     /\ \E u \in UserClaims, e \in ExpertClaims : LegacyConnection(u, e)
     /\ UNCHANGED otherVars
  \/ \E s \in Sockets(MaxSockets) : Disconnect(s) /\ UNCHANGED otherVars

SpecLegacy == Init /\ [][NextLegacy]_vars

(* The expert-to-expert channel behind the session gate.  The store holds   *)
(* any of the session documents from the start.                             *)

InitSession ==
  /\ InitRelay
  /\ InitKey
  /\ sessions \in SUBSET SessionDocs
  /\ committed = {}
  /\ inbox = <<>>
  /\ routed = 0
  /\ request = Undefined
  /\ reply = Undefined
  /\ joinLog = [rejoined |-> {}, dropped |-> {}]
  /\ messages = {}
  /\ tasks = <<>>
  /\ journal = <<>>
  /\ clock = 0
  /\ seen = <<>>

NextSession ==
  \/ Lifecycle({Undefined}, ExpertClaims \ Rejected, MaxSockets) /\ UNCHANGED otherVars
  \/ Joining(MaxSockets) /\ UNCHANGED otherVars
  \/ RoomEvents(MaxSockets, RoomPayloads \ Payloads) /\ UNCHANGED otherVars
  \/ \E p \in RoomPairs, ok \in BOOLEAN :
       expertMessagesSend(p[1], p[2], ok) /\ UNCHANGED otherVars

SpecSession == InitSession /\ [][NextSession]_vars

(* The expert-to-expert channel: experts connect, join rooms, and events    *)
(* are emitted to rooms.  One connection more than in the direct channel,   *)
(* for the two members of a room and a connection outside of it.            *)

RoomSockets == MaxSockets + 1

NextRoom ==
  \/ Lifecycle({Undefined}, ExpertClaims \ Rejected, RoomSockets) /\ UNCHANGED otherVars
  \/ Joining(RoomSockets) /\ UNCHANGED otherVars
  \/ RoomEvents(RoomSockets, RoomPayloads \ Payloads) /\ UNCHANGED otherVars
  \/ RoomCommands /\ UNCHANGED otherVars

SpecRoom == Init /\ [][NextRoom]_vars

(* The rooms of the expert-to-expert channel over the life of connections: *)
(* joinLog records which joins repeated an earlier join of the same        *)
(* socket, and which rooms the transport dropped with a disconnected       *)
(* socket of which expert.                                                  *)

LogJoin ==
  /\ joinLog' =
       [rejoined |->
          {p \in joinLog.rejoined : p[1] \in connected'}
          \cup (IF last'.op = "joinRoom" /\ last'.a \in rooms[last'.sock]
                THEN {<<last'.sock, last'.a>>} ELSE {}),
        dropped |->
          joinLog.dropped
          \cup UNION {{<<handshake[h][2], r>> : r \in JoinInputs \cap rooms[h]} :
                       h \in connected \ connected'}]
  /\ UNCHANGED <<sessions, committed, wireVars, replyVars, storeVars, taskVars,
                 viewVars>>

NextJoin ==
  \/ Lifecycle({Undefined}, {E1, E2}, RoomSockets) /\ LogJoin
  \/ Joining(RoomSockets) /\ LogJoin
  \/ \E s \in Sockets(RoomSockets) : OnExpertMessageEdited(s, E2, E1) /\ LogJoin
  \/ sendExpertMessage(E1, E2, TRUE) /\ LogJoin

SpecJoin == Init /\ [][NextJoin]_vars

(* Client events whose payload is missing or lacks the identities, and     *)
(* joinRoom calls with a key that is no room key of a pair.                *)

ClientEvents == {"on:sendMessage", "on:messageEdited", "on:messageDeleted",
                 "on:allMessagesDeleted", "on:expertMessageEdited",
                 "on:expertMessageDeleted", "on:allExpertMessagesDeleted",
                 "on:conversationDeleted"}

\* what a client may send as a room key
KeyInputs == {RoomKey(E1, E2), RoomKey(Undefined, Undefined)}

\* payloads without the identities, and a well-formed one
PayloadInputs == {<<Undefined, Undefined>>, <<E2, E1>>}

NextPayload ==
  \/ Lifecycle({Undefined}, {Undefined, E1}, MaxSockets) /\ UNCHANGED otherVars
  \/ \E s \in Sockets(MaxSockets), room \in KeyInputs :
       JoinRoom(s, room) /\ UNCHANGED otherVars
  \/ DirectEvents(MaxSockets) /\ UNCHANGED otherVars
  \/ RoomEvents(MaxSockets, PayloadInputs) /\ UNCHANGED otherVars
  \/ \E s \in Sockets(MaxSockets), event \in ClientEvents :
       OnEventWithoutPayload(s, event) /\ UNCHANGED otherVars

SpecPayload == Init /\ [][NextPayload]_vars

(* The messages collection under the delete and edit requests.  The store  *)
(* starts with a message in each direction between u1 and e1 and one from  *)
(* e1 to e2.                                                                *)

Message(id, senderId, receiverId) ==
  [id |-> id, senderId |-> senderId, receiverId |-> receiverId,
   text |-> <<"a">>, isEdited |-> FALSE]

MessageDocs == {Message(<<"m", "1">>, U1, E1), Message(<<"m", "2">>, E1, U1),
                Message(<<"m", "3">>, E1, E2)}

\* ids a request may name: those of the store and one that no message has
MessageIds == {m.id : m \in MessageDocs} \cup {<<"m", "4">>}

\* req.user?._id || req.expert?._id
Callers == {U1, E1, Undefined}

InitAuth ==
  /\ InitRelay
  /\ InitKey
  /\ sessions = {}
  /\ committed = {}
  /\ inbox = <<>>
  /\ routed = 0
  /\ request = Undefined
  /\ reply = Undefined
  /\ joinLog = [rejoined |-> {}, dropped |-> {}]
  /\ messages = MessageDocs
  /\ tasks = <<>>
  /\ journal = <<>>
  /\ clock = 0
  /\ seen = <<>>

NextAuth ==
  \/ Lifecycle({Undefined, U1, E1}, {Undefined}, MaxSockets) /\ UNCHANGED otherVars
  \/ \E userId \in Callers, messageID \in MessageIds :
       deleteOneMessageRequest(userId, messageID)
  \/ \E userId \in Callers, senderID \in {U1, E1}, reciverID \in {U1, E1, E2} :
       deleteAllMessageRequest(userId, senderID, reciverID)
  \/ \E userId \in Callers, messageID \in MessageIds :
       editMessageRequest(userId, messageID, <<"b">>)

SpecAuth == InitAuth /\ [][NextAuth]_vars

(* Requests in progress.  A handler is an async function: it runs up to an *)
(* await, and resumes with the result of the store operation it awaited    *)
(* when that operation has been carried out; other requests run in         *)
(* between.  A step below is one store operation together with the code    *)
(* that runs on its result, up to the next await or to the answer.         *)

MaxTasks == 2

Task(op, userId, messageID) ==
  [op |-> op, pc |-> "start", userId |-> userId, messageID |-> messageID,
   receiverId |-> Undefined, count |-> 0, receiverSocketId |-> Undefined,
   createdAt |-> 0, file |-> FALSE, reply |-> "none"]

\* the emits of the step of request t, as the journal keeps them
Entries(t, out) ==
  [k \in 1..Len(out) |->
     [task |-> t, event |-> out[k].event, room |-> out[k].room, to |-> out[k].to]]

\* a step that emits nothing and is no handler's end
Silent == UNCHANGED <<relayVars, keyVars, journal>>

\* what a step leaves alone besides the store and the requests
TaskFrame ==
  UNCHANGED <<sessions, committed, wireVars, replyVars, joinVars, clock, viewVars>>

(* deleteExpertMessage, from its emit on: controller/voice.controller.js:   *)
(* 1036-1045                                                                *)
deleteExpertMessage(senderID, receiverId, ok) ==
  /\ Routed("deleteExpertMessage", Undefined, senderID, receiverId, ok,
            IF ok
            THEN <<Emit("expertMessageDeleted", RoomKey(senderID, receiverId),
                        senderID, receiverId)>>
            ELSE <<>>)

DeleteOps == {"deleteOneMessage", "deleteExpertMessage"}

(* findOne and the checks on its result: index.js:344-360,                 *)
(* voice.controller.js:1010-1024                                            *)
DeleteFind(t) ==
  /\ tasks[t].op \in DeleteOps
  /\ tasks[t].pc = "start"
  /\ LET found == FindById(tasks[t].messageID)
         message == CHOOSE m \in found : TRUE
     IN tasks' = [tasks EXCEPT ![t] =
          IF found = {}
          THEN [@ EXCEPT !.pc = "done", !.reply = "alreadyDeleted"]
          ELSE IF message.senderId # @.userId
          THEN [@ EXCEPT !.pc = "done", !.reply = "forbidden"]
          ELSE [@ EXCEPT !.pc = "deleteOne", !.receiverId = message.receiverId]]
  /\ UNCHANGED messages
  /\ Silent
  /\ TaskFrame

\* variant: deletedCount is not looked at
DeleteRemoveUnchecked(t) ==
  /\ tasks[t].op \in DeleteOps
  /\ tasks[t].pc = "deleteOne"
  /\ LET found == FindById(tasks[t].messageID)
         deletedCount == Cardinality(found)
     IN /\ messages' = messages \ found
        /\ IF tasks[t].op = "deleteOneMessage"
           THEN deleteOneMessage(tasks[t].userId, tasks[t].receiverId, TRUE)
           ELSE deleteExpertMessage(tasks[t].userId, tasks[t].receiverId, TRUE)
        /\ tasks' = [tasks EXCEPT ![t] =
             [@ EXCEPT !.pc = "done", !.count = deletedCount,
                       !.receiverSocketId = getReceiverSocketId(tasks[t].receiverId),
                       !.reply = "deleted"]]
  /\ journal' = journal \o Entries(t, delivered')
  /\ TaskFrame

(* deleteOne and what follows it: index.js:366-390,                         *)
(* voice.controller.js:1027-1052                                            *)
DeleteRemove(t) ==
  /\ tasks[t].op \in DeleteOps
  /\ tasks[t].pc = "deleteOne"
  /\ LET found == FindById(tasks[t].messageID)
         deletedCount == Cardinality(found)
     IN /\ messages' = messages \ found
        /\ IF tasks[t].op = "deleteOneMessage"
           THEN deleteOneMessage(tasks[t].userId, tasks[t].receiverId,
                                 deletedCount # 0)
           ELSE deleteExpertMessage(tasks[t].userId, tasks[t].receiverId,
                                    deletedCount # 0)
        /\ tasks' = [tasks EXCEPT ![t] =
             [@ EXCEPT !.pc = "done", !.count = deletedCount,
                       !.receiverSocketId =
                          IF deletedCount # 0
                          THEN getReceiverSocketId(tasks[t].receiverId) ELSE Undefined,
                       !.reply = IF deletedCount = 0
                                 THEN "alreadyDeleted" ELSE "deleted"]]
  /\ journal' = journal \o Entries(t, delivered')
  /\ TaskFrame

(* editMessage, findOne and the checks: index.js:485-516 *)
EditFind(t) ==
  /\ tasks[t].op = "editMessage"
  /\ tasks[t].pc = "start"
  /\ LET found == FindById(tasks[t].messageID)
         message == CHOOSE m \in found : TRUE
     IN tasks' = [tasks EXCEPT ![t] =
          IF found = {} \/ ~Truthy(@.userId)
          THEN [@ EXCEPT !.pc = "done", !.reply = "failure"]
          ELSE IF message.senderId # @.userId
          THEN [@ EXCEPT !.pc = "done", !.reply = "failure"]
          ELSE [@ EXCEPT !.pc = "updateOne", !.receiverId = message.receiverId]]
  /\ UNCHANGED messages
  /\ Silent
  /\ TaskFrame

(* editMessage, updateOne and the test of modifiedCount: index.js:519-537;  *)
(* the update sets editedAt, so it modifies the record it matches          *)
EditUpdate(t) ==
  /\ tasks[t].op = "editMessage"
  /\ tasks[t].pc = "updateOne"
  /\ LET found == FindById(tasks[t].messageID)
         modifiedCount == Cardinality(found)
     IN /\ messages' = (messages \ found)
                        \cup {[m EXCEPT !.text = <<"b">>, !.isEdited = TRUE] :
                                m \in found}
        /\ tasks' = [tasks EXCEPT ![t] =
             IF modifiedCount = 0
             THEN [@ EXCEPT !.pc = "done", !.reply = "failure"]
             ELSE [@ EXCEPT !.pc = "findOne", !.count = modifiedCount]]
  /\ Silent
  /\ TaskFrame

(* editMessage, the second findOne and the emits: index.js:540-590.  When   *)
(* the record is gone, updatedMessageDoc is null, reading its _id throws,   *)
(* and the catch answers success: false.                                    *)
EditRefetch(t) ==
  /\ tasks[t].op = "editMessage"
  /\ tasks[t].pc = "findOne"
  /\ LET found == FindById(tasks[t].messageID)
         updatedMessageDoc == CHOOSE m \in found : TRUE
     IN IF found = {}
        THEN /\ editMessage(tasks[t].userId, tasks[t].receiverId, FALSE)
             /\ tasks' = [tasks EXCEPT ![t] =
                  [@ EXCEPT !.pc = "done", !.reply = "failure"]]
        ELSE /\ editMessage(updatedMessageDoc.senderId,
                            updatedMessageDoc.receiverId, TRUE)
             /\ tasks' = [tasks EXCEPT ![t] =
                  [@ EXCEPT !.pc = "done", !.reply = "success",
                            !.receiverSocketId =
                               getReceiverSocketId(updatedMessageDoc.receiverId)]]
  /\ journal' = journal \o Entries(t, delivered')
  /\ UNCHANGED messages
  /\ TaskFrame

(* Requests of u1 on the message it sent to e1, and of e1 on the message    *)
(* it sent to e2, while e1 connects and disconnects as a user.              *)

RaceTasks == {Task("deleteOneMessage", U1, <<"m", "1">>),
              Task("editMessage", U1, <<"m", "1">>),
              Task("deleteExpertMessage", E1, <<"m", "3">>)}

InitRace ==
  /\ InitRelay
  /\ InitKey
  /\ sessions = {}
  /\ committed = {}
  /\ inbox = <<>>
  /\ routed = 0
  /\ request = Undefined
  /\ reply = Undefined
  /\ joinLog = [rejoined |-> {}, dropped |-> {}]
  /\ messages = MessageDocs
  /\ tasks \in [1..MaxTasks -> RaceTasks]
  /\ journal = <<>>
  /\ clock = 0
  /\ seen = <<>>

NextRace ==
  \/ Lifecycle({Undefined, E1}, {Undefined}, MaxSockets) /\ UNCHANGED otherVars
  \/ \E t \in 1..MaxTasks : DeleteFind(t)
  \/ \E t \in 1..MaxTasks : DeleteRemove(t)
  \/ \E t \in 1..MaxTasks : EditFind(t)
  \/ \E t \in 1..MaxTasks : EditUpdate(t)
  \/ \E t \in 1..MaxTasks : EditRefetch(t)

SpecRace == InitRace /\ [][NextRace]_vars

(* sendMessage in progress: index.js:242-289.  The handler stamps the      *)
(* message with new Date() before it awaits insertOne, and emits when the  *)
(* insert has returned.                                                     *)

\* the document of index.js:256-262, with the _id the insert gave it
NewMessage(id, senderId, receiverId, text, createdAt) ==
  [id |-> id, senderId |-> senderId, receiverId |-> receiverId,
   text |-> text, createdAt |-> createdAt]

(* up to the await of insertOne: index.js:244-265; the clock has moved on  *)
(* since the previous reading, or has not                                   *)
SendStart(t) ==
  /\ tasks[t].op = "sendMessage"
  /\ tasks[t].pc = "start"
  /\ \E now \in {clock, clock + 1} :
       /\ clock' = now
       /\ tasks' = [tasks EXCEPT ![t] =
            IF ~Truthy(@.userId) \/ ~Truthy(@.receiverId)
            THEN [@ EXCEPT !.pc = "done", !.reply = "missing"]
            ELSE [@ EXCEPT !.pc = "insertOne", !.createdAt = now]]
  /\ UNCHANGED messages
  /\ Silent
  /\ UNCHANGED <<sessions, committed, wireVars, replyVars, joinVars,
                 viewVars>>

(* insertOne and what follows it: index.js:265-284 *)
SendInsert(t) ==
  /\ tasks[t].op = "sendMessage"
  /\ tasks[t].pc = "insertOne"
  /\ messages' = messages \cup {NewMessage(tasks[t].messageID, tasks[t].userId,
                                           tasks[t].receiverId, <<"a">>,
                                           tasks[t].createdAt)}
  /\ sendMessage(tasks[t].userId, tasks[t].receiverId, TRUE)
  /\ tasks' = [tasks EXCEPT ![t] =
       [@ EXCEPT !.pc = "done", !.count = 1, !.reply = "created",
                 !.receiverSocketId = getReceiverSocketId(tasks[t].receiverId)]]
  /\ journal' = journal \o Entries(t, delivered')
  /\ TaskFrame

\* request t of u1 to e1; the store will name its message m<t>
SendTask(t) ==
  [Task("sendMessage", U1, <<"m">> \o [i \in 1..t |-> "i"]) EXCEPT !.receiverId = E1]

InitOrder ==
  /\ InitRelay
  /\ InitKey
  /\ sessions = {}
  /\ committed = {}
  /\ inbox = <<>>
  /\ routed = 0
  /\ request = Undefined
  /\ reply = Undefined
  /\ joinLog = [rejoined |-> {}, dropped |-> {}]
  /\ messages = {}
  /\ tasks = [t \in 1..MaxTasks |-> SendTask(t)]
  /\ journal = <<>>
  /\ clock = 0
  /\ seen = <<>>

NextOrder ==
  \/ Lifecycle({Undefined, E1}, {Undefined}, MaxSockets) /\ UNCHANGED otherVars
  \/ \E t \in 1..MaxTasks : SendStart(t)
  \/ \E t \in 1..MaxTasks : SendInsert(t)

SpecOrder == InitOrder /\ [][NextOrder]_vars

(* What each socket knows of presence: the payload of the last broadcast  *)
(* of each event that was addressed to it.  A socket that was sent none    *)
(* has NoBroadcast.                                                         *)

\* the payload of the last broadcast of an event in out that went to s
Heard(out, event, s, before) ==
  LET mine == {k \in 1..Len(out) : out[k].event = event /\ s \in out[k].to}
  IN IF mine = {} THEN before
     ELSE out[CHOOSE k \in mine : \A j \in mine : j <= k].keys

Observe ==
  /\ seen' = [s \in connected' |->
       LET before == IF s \in connected THEN seen[s]
                     ELSE [users |-> NoBroadcast, experts |-> NoBroadcast]
       IN [users |-> Heard(presence', "getOnlineUsers", s, before.users),
           experts |-> Heard(presence', "getOnlineExperts", s, before.experts)]]
  /\ UNCHANGED <<sessions, committed, wireVars, replyVars, joinVars, storeVars,
                 taskVars>>

NextView ==
  /\ Lifecycle(UserClaims \ Rejected, ExpertClaims \ Rejected, MaxSockets)
  /\ Observe

SpecView == Init /\ [][NextView]_vars

(* Every handler that routes, of both channels, beside the lifecycle and   *)
(* the joins of a user-space connection of e1 and an expert-space          *)
(* connection of e2.                                                        *)

NextFrame ==
  \/ Lifecycle({Undefined, E1}, {Undefined, E2}, MaxSockets) /\ UNCHANGED otherVars
  \/ Joining(MaxSockets) /\ UNCHANGED otherVars
  \/ DirectEvents(MaxSockets) /\ UNCHANGED otherVars
  \/ RoomEvents(MaxSockets, RoomPayloads \ Payloads) /\ UNCHANGED otherVars
  \/ DirectCommands /\ UNCHANGED otherVars
  \/ RoomCommands /\ UNCHANGED otherVars

SpecFrame == Init /\ [][NextFrame]_vars

(* uploadVoiceMessage in progress: controller/voice.controller.js:125-286. *)
(* file says whether the uploaded file is on disk; both documents go to    *)
(* the messages collection.  An insert returns acknowledged, returns       *)
(* unacknowledged (nothing stored), or throws (nothing stored).            *)

\* ObjectId.isValid: the identities stand for 24-digit hexadecimal strings
IsValid(id) == id \in Idents

InsertOutcomes == {"acknowledged", "unacknowledged", "throws"}

\* voiceDoc, voice.controller.js:185-194, with the _id the insert gave it
VoiceDoc(t) ==
  [id |-> <<"v">> \o tasks[t].messageID, senderId |-> tasks[t].userId,
   receiverId |-> tasks[t].receiverId, text |-> <<"f">>, isEdited |-> FALSE]

\* newMessage, voice.controller.js:212-221
VoiceMessage(t) ==
  [id |-> tasks[t].messageID, senderId |-> tasks[t].userId,
   receiverId |-> tasks[t].receiverId, text |-> <<"v">>, isEdited |-> FALSE]

(* the checks before the first insert: voice.controller.js:135-182; each    *)
(* refusal but the first unlinks the file                                   *)
UploadStart(t) ==
  /\ tasks[t].op = "uploadVoiceMessage"
  /\ tasks[t].pc = "start"
  /\ tasks' = [tasks EXCEPT ![t] =
       IF ~@.file
       THEN [@ EXCEPT !.pc = "done", !.reply = "400"]
       ELSE IF ~Truthy(@.receiverId)
       THEN [@ EXCEPT !.pc = "done", !.reply = "400", !.file = FALSE]
       ELSE IF ~Truthy(@.userId)
       THEN [@ EXCEPT !.pc = "done", !.reply = "401", !.file = FALSE]
       ELSE IF ~IsValid(@.userId) \/ ~IsValid(@.receiverId)
       THEN [@ EXCEPT !.pc = "done", !.reply = "400", !.file = FALSE]
       ELSE [@ EXCEPT !.pc = "insertVoice"]]
  /\ UNCHANGED messages
  /\ Silent
  /\ TaskFrame

(* voiceCollection.insertOne and the test of its result:                    *)
(* voice.controller.js:197-209; a throw goes to the catch, 277-284          *)
UploadVoiceInsert(t, outcome) ==
  /\ tasks[t].op = "uploadVoiceMessage"
  /\ tasks[t].pc = "insertVoice"
  /\ messages' = IF outcome = "acknowledged"
                 THEN messages \cup {VoiceDoc(t)} ELSE messages
  /\ tasks' = [tasks EXCEPT ![t] =
       IF outcome = "acknowledged"
       THEN [@ EXCEPT !.pc = "insertMessage"]
       ELSE [@ EXCEPT !.pc = "done", !.reply = "500", !.file = FALSE]]
  /\ Silent
  /\ TaskFrame

(* messageCollection.insertOne and what follows: voice.controller.js:       *)
(* 224-275.  Unacknowledged: the file is unlinked and the voice document    *)
(* deleted.  A throw goes to the catch, which unlinks the file and          *)
(* answers: 277-284.                                                        *)
UploadMessageInsert(t, outcome) ==
  /\ tasks[t].op = "uploadVoiceMessage"
  /\ tasks[t].pc = "insertMessage"
  /\ messages' = IF outcome = "acknowledged" THEN messages \cup {VoiceMessage(t)}
                 ELSE IF outcome = "unacknowledged" THEN messages \ {VoiceDoc(t)}
                 ELSE messages
  /\ uploadVoiceMessage(tasks[t].userId, tasks[t].receiverId,
                        outcome = "acknowledged")
  /\ tasks' = [tasks EXCEPT ![t] =
       IF outcome = "acknowledged"
       THEN [@ EXCEPT !.pc = "done", !.reply = "201", !.count = 1,
                      !.receiverSocketId = getReceiverSocketId(tasks[t].receiverId)]
       ELSE [@ EXCEPT !.pc = "done", !.reply = "500", !.file = FALSE]]
  /\ journal' = journal \o Entries(t, delivered')
  /\ TaskFrame

\* request t: the multer middleware stored a file, or none came
UploadTasks(t) ==
  {[Task("uploadVoiceMessage", userId, <<"m">> \o [i \in 1..t |-> "i"])
      EXCEPT !.receiverId = receiverId, !.file = file] :
     userId \in {U1, Undefined}, receiverId \in {E1, Undefined, Placeholder},
     file \in BOOLEAN}

InitUpload ==
  /\ InitRelay
  /\ InitKey
  /\ sessions = {}
  /\ committed = {}
  /\ inbox = <<>>
  /\ routed = 0
  /\ request = Undefined
  /\ reply = Undefined
  /\ joinLog = [rejoined |-> {}, dropped |-> {}]
  /\ messages = {}
  /\ tasks \in {f \in [1..MaxTasks -> UNION {UploadTasks(t) : t \in 1..MaxTasks}] :
                  \A t \in 1..MaxTasks : f[t] \in UploadTasks(t)}
  /\ journal = <<>>
  /\ clock = 0
  /\ seen = <<>>

NextUpload ==
  \/ Lifecycle({Undefined, E1}, {Undefined}, MaxSockets) /\ UNCHANGED otherVars
  \/ \E t \in 1..MaxTasks : UploadStart(t)
  \/ \E t \in 1..MaxTasks, outcome \in InsertOutcomes : UploadVoiceInsert(t, outcome)
  \/ \E t \in 1..MaxTasks, outcome \in InsertOutcomes : UploadMessageInsert(t, outcome)

SpecUpload == InitUpload /\ [][NextUpload]_vars

(* streamVoiceMessage, the Range header: controller/voice.controller.js:   *)
(* 404-525 and controller/expert.voiceController.js:447-477, which is the  *)
(* same text.  A header is a sequence of symbols; the word "bytes=" is one *)
(* symbol.  request holds the header and the size of the file, reply what  *)
(* res.writeHead was given.                                                 *)

MaxHeader == 4
MaxSize == 3

HeaderSymbols == {"bytes=", "-", "0", "2", "x"}

Digits == {"0", "2"}

DigitValue(c) == IF c = "0" THEN 0 ELSE 2

RECURSIVE Strings(_, _)
Strings(symbols, n) ==
  IF n = 0 THEN {<<>>}
  ELSE LET shorter == Strings(symbols, n - 1)
       IN shorter \cup {Append(w, c) : w \in shorter, c \in symbols}

\* req.headers.range: absent, or a string
RangeHeaders == {Undefined} \cup Strings(HeaderSymbols, MaxHeader)

\* str.replace(/bytes=/, ""): the first occurrence goes
RemoveBytes(str) ==
  LET at == {i \in 1..Len(str) : str[i] = "bytes="}
  IN IF at = {} THEN str
     ELSE LET first == CHOOSE i \in at : \A j \in at : i <= j
          IN SubSeq(str, 1, first - 1) \o SubSeq(str, first + 1, Len(str))

\* str.split("-")
RECURSIVE Split(_)
Split(str) ==
  LET at == {i \in 1..Len(str) : str[i] = "-"}
  IN IF at = {} THEN <<str>>
     ELSE LET first == CHOOSE i \in at : \A j \in at : i <= j
          IN <<SubSeq(str, 1, first - 1)>> \o Split(SubSeq(str, first + 1, Len(str)))

\* the digits a string starts with
RECURSIVE LeadingDigits(_)
LeadingDigits(str) ==
  IF str = <<>> \/ Head(str) \notin Digits THEN <<>>
  ELSE <<Head(str)>> \o LeadingDigits(Tail(str))

RECURSIVE DecimalValue(_)
DecimalValue(digits) ==
  IF digits = <<>> THEN 0
  ELSE 10 * DecimalValue(SubSeq(digits, 1, Len(digits) - 1))
       + DigitValue(digits[Len(digits)])

\* isNaN(parseInt(str, 10)): the string starts with no digit
ParsesToNaN(str) == LeadingDigits(str) = <<>>

\* parseInt(str, 10) of a string that starts with a digit
ParseInt(str) == DecimalValue(LeadingDigits(str))

Min(a, b) == IF a < b THEN a ELSE b

Max(a, b) == IF a > b THEN a ELSE b

Answer(status, start, end, length) ==
  [status |-> status, start |-> start, end |-> end, length |-> length]

(* voice.controller.js:457-487 for a header, 510-513 without one; an empty *)
(* header is falsy                                                          *)
StreamResponse(range, fileSize) ==
  IF range = Undefined \/ range = <<>>
  THEN Answer(200, 0, fileSize - 1, fileSize)
  ELSE LET parts == Split(RemoveBytes(range))
           start == Max(0, Min(IF ParsesToNaN(parts[1]) THEN 0
                               ELSE ParseInt(parts[1]), fileSize - 1))
           given == IF Len(parts) >= 2 /\ parts[2] # <<>>
                    THEN IF ParsesToNaN(parts[2]) THEN fileSize - 1
                         ELSE ParseInt(parts[2])
                    ELSE fileSize - 1
           end == Max(start, IF given >= fileSize THEN fileSize - 1 ELSE given)
       IN Answer(206, start, end, end - start + 1)

InitStream ==
  /\ InitRelay
  /\ InitKey
  /\ sessions = {}
  /\ committed = {}
  /\ inbox = <<>>
  /\ routed = 0
  /\ request \in [range : RangeHeaders, fileSize : 0..MaxSize]
  /\ reply = Answer(0, 0, 0, 0)
  /\ joinLog = [rejoined |-> {}, dropped |-> {}]
  /\ messages = {}
  /\ tasks = <<>>
  /\ journal = <<>>
  /\ clock = 0
  /\ seen = <<>>

streamVoiceMessage ==
  /\ reply.status = 0
  /\ reply' = StreamResponse(request.range, request.fileSize)
  /\ UNCHANGED <<relayVars, keyVars, sessions, committed, wireVars, request,
                 joinVars, storeVars, taskVars, viewVars>>

NextStream == streamVoiceMessage

SpecStream == InitStream /\ [][NextStream]_vars

(* What the sockets receive.  A handler's emits are numbered in the order   *)
(* of the calls; the transport writes the packets of a socket in that       *)
(* order, and a socket that disconnects takes what it received with it.     *)

\* the emits of a handler, numbered from n + 1, that are addressed to socket s
Packets(seq, n, s) ==
  LET numbered == [k \in 1..Len(seq) |->
                     [no |-> n + k, event |-> seq[k].event,
                      senderId |-> seq[k].senderId, to |-> seq[k].to]]
      mine(e) == s \in e.to
      sent == SelectSeq(numbered, mine)
  IN [k \in 1..Len(sent) |->
        [no |-> sent[k].no, event |-> sent[k].event, senderId |-> sent[k].senderId]]

\* variant: the newest packet overtakes the ones written before
WriteFirst(box, packets) == packets \o box

\* the socket receives the packets after those it was sent before
Write(box, packets) == box \o packets

Transmit ==
  /\ routed' = routed + Len(delivered')
  /\ inbox' = [s \in connected' |->
                 Write(IF s \in connected THEN inbox[s] ELSE <<>>,
                       Packets(delivered', routed, s))]
  /\ UNCHANGED <<sessions, committed, replyVars, joinVars, storeVars, taskVars,
                 viewVars>>

NextWire ==
  \/ /\ Lifecycle(UserClaims \ Rejected, ExpertClaims \ Rejected, MaxSockets)
     /\ Transmit
  \/ /\ routed < MaxEvents
     /\ \/ DirectEvents(MaxSockets)
        \/ \E p \in StoredPairs, ok \in BOOLEAN : sendMessage(p[1], p[2], ok)
     /\ Transmit

SpecWire == Init /\ [][NextWire]_vars

(* The room key as a function of the two identities of an event:           *)
(* socket.js:143-145, 155, 170, 183 and the HTTP command handlers           *)
(* (voice.controller.js:965-967).  A field that is missing is undefined.    *)

InitRoomKey ==
  /\ InitRelay
  /\ InitOther
  /\ args \in (Tokens \cup {Undefined}) \X (Tokens \cup {Undefined})
  /\ roomId = Undefined

ComputeRoomId ==
  /\ roomId = Undefined
  /\ roomId' = RoomKey(args[1], args[2])
  /\ UNCHANGED <<args, relayVars, otherVars>>

NextRoomKey == ComputeRoomId

SpecRoomKey == InitRoomKey /\ [][NextRoomKey]_vars

----------------------------------------------------------------------------
(* Properties *)

Keys(m) == Range(MapKeys(m))

\* positions of the broadcasts of an event among those of a handler
Broadcasts(seq, event) == {k \in 1..Len(seq) : seq[k].event = event}

\* the socket that connected in this step, if any
Arrived == connected' \ connected

\* the socket that disconnected in this step, if any
Departed == connected \ connected'

\* number of (event, connection) deliveries of the most recent handler
RECURSIVE Deliveries(_)
Deliveries(seq) ==
  IF seq = <<>> THEN 0
  ELSE Cardinality(Head(seq).to) + Deliveries(Tail(seq))

DirectEventOps == {"on:sendMessage", "on:messageEdited", "on:messageDeleted",
                   "on:allMessagesDeleted"}

\* HTTP command handlers that notify the receiver alone
DirectCommandOps == {"sendMessage", "deleteOneMessage", "deleteAllMessage",
                     "uploadVoiceMessage", "deleteVoiceMessage", "uploadFile",
                     "deleteFile"}

InUserSpace(i) == Truthy(getReceiverSocketId(i))
InExpertSpace(i) == Truthy(getExpertSocketId(i))

(* C1: when a connection h that claimed identity i in a space disconnects  *)
(* while i is mapped to a different connection h2 (h2 registered i after   *)
(* h), i stays mapped to h2 and the disconnect emits no presence broadcast *)
(* for that space.                                                         *)
C1_StaleDisconnect ==
  [][\A h \in Departed : \A h2 \in connected \ {h} :
       /\ (Registers(handshake[h][1]) /\ getReceiverSocketId(handshake[h][1]) = h2)
            => /\ MapGet(userSocketMap', handshake[h][1]) = h2
               /\ Broadcasts(presence', "getOnlineUsers") = {}
       /\ (Registers(handshake[h][2]) /\ getExpertSocketId(handshake[h][2]) = h2)
            => /\ MapGet(expertSocketMap', handshake[h][2]) = h2
               /\ Broadcasts(presence', "getOnlineExperts") = {}]_vars

\* a superseded connection of expert e1 has just disconnected
C1_Witness ==
  /\ last.op = "disconnect"
  /\ last.b = E1
  /\ InExpertSpace(E1)
  /\ getExpertSocketId(E1) # last.sock
  /\ getExpertSocketId(E1) \in connected
  /\ Broadcasts(presence, "getOnlineExperts") = {}

(* C2: a connection that claims a valid identity is what lookup of that    *)
(* identity returns once it has connected, also when another connection    *)
(* held the identity before; no identity has two entries in a registry.    *)
C2_LookupLatest ==
  /\ [](\A m \in {userSocketMap, expertSocketMap} :
          \A i, j \in 1..Len(m) : m[i].key = m[j].key => i = j)
  /\ [][\A h \in Arrived :
          /\ Registers(handshake'[h][1])
               => MapGet(userSocketMap', handshake'[h][1]) = h
          /\ Registers(handshake'[h][2])
               => MapGet(expertSocketMap', handshake'[h][2]) = h]_vars

\* the second of two live connections that claim expert e1 has just connected
C2_Witness ==
  /\ last.op = "connection"
  /\ last.b = E1
  /\ \E h1 \in connected \ {last.sock} : handshake[h1][2] = E1
  /\ getExpertSocketId(E1) = last.sock

(* C3: when the connection that user u is mapped to disconnects, u leaves  *)
(* the user registry and the getOnlineUsers broadcast of that disconnect   *)
(* excludes u; while u is absent and no connection claiming u arrives, u   *)
(* stays absent and no getOnlineUsers broadcast contains u.                *)
C3_OfflineUserExcluded ==
  [][\A u \in Idents :
       /\ (\E h \in Departed : getReceiverSocketId(u) = h)
            => /\ u \notin Keys(userSocketMap')
               /\ Broadcasts(presence', "getOnlineUsers") # {}
               /\ \A k \in Broadcasts(presence', "getOnlineUsers") :
                    u \notin Range(presence'[k].keys)
       /\ (u \notin Keys(userSocketMap) /\ ~ \E h \in Arrived : handshake'[h][1] = u)
            => /\ u \notin Keys(userSocketMap')
               /\ \A k \in Broadcasts(presence', "getOnlineUsers") :
                    u \notin Range(presence'[k].keys)]_vars

\* user u1's connection has just disconnected and the others were told
C3_Witness ==
  /\ last.op = "disconnect"
  /\ last.a = U1
  /\ U1 \notin Keys(userSocketMap)
  /\ \E k \in Broadcasts(presence, "getOnlineUsers") :
       presence[k].to # {} /\ U1 \notin Range(presence[k].keys)

\* the payload of the most recent broadcast of a space is its registry's keys
Current(payload, m) ==
  IF payload = NoBroadcast THEN m = <<>> ELSE payload = MapKeys(m)

(* C4: a handler that changes a registry broadcasts that registry's keys   *)
(* to all connected sockets, so the payload of the most recent             *)
(* getOnlineUsers (getOnlineExperts) broadcast is the key list of the user *)
(* (expert) registry.                                                      *)
C4_SnapshotCurrent ==
  /\ [](Current(lastOnlineUsers, userSocketMap)
          /\ Current(lastOnlineExperts, expertSocketMap))
  /\ [][/\ userSocketMap' # userSocketMap
             => \E k \in 1..Len(presence') :
                  presence'[k] = Broadcast("getOnlineUsers",
                                           MapKeys(userSocketMap'), connected')
        /\ expertSocketMap' # expertSocketMap
             => \E k \in 1..Len(presence') :
                  presence'[k] = Broadcast("getOnlineExperts",
                                           MapKeys(expertSocketMap'), connected')]_vars

\* an expert has just disconnected while another expert stays registered
C4_Witness ==
  /\ last.op = "disconnect"
  /\ Registers(last.b)
  /\ Broadcasts(presence, "getOnlineExperts") # {}
  /\ expertSocketMap # <<>>
  /\ lastOnlineExperts = MapKeys(expertSocketMap)

(* C5: a client event of the direct channel whose receiver is registered   *)
(* in exactly one space is delivered once, to one connection; one whose    *)
(* receiver is registered in neither space is delivered to nobody; the     *)
(* handler leaves both registries as they were.                            *)
C5_DeliveredOnce ==
  /\ [](last.op \in DirectEventOps =>
          /\ (InUserSpace(last.b) # InExpertSpace(last.b))
               => Len(delivered) = 1 /\ Deliveries(delivered) = 1
          /\ (~InUserSpace(last.b) /\ ~InExpertSpace(last.b))
               => Deliveries(delivered) = 0)
  /\ [][last'.op \in DirectEventOps
          => UNCHANGED <<userSocketMap, expertSocketMap>>]_vars

\* allMessagesDeleted for a receiver that is registered as an expert only
C5_Witness ==
  /\ last.op = "on:allMessagesDeleted"
  /\ last.b = E2
  /\ InExpertSpace(E2) /\ ~InUserSpace(E2)
  /\ Deliveries(delivered) = 1

(* C6: at every site of the direct channel (client events and HTTP command *)
(* handlers that reached their emit), an event whose receiver is           *)
(* registered in the user space or in the expert space is delivered.       *)
C6_DeliveredInEitherSpace ==
  (/\ last.op \in DirectEventOps \cup DirectCommandOps \cup {"editMessage"}
   /\ last.ok
   /\ InUserSpace(last.b) \/ InExpertSpace(last.b))
    => \E k \in 1..Len(delivered) :
         /\ delivered[k].room \in {getReceiverSocketId(last.b),
                                   getExpertSocketId(last.b)}
         /\ delivered[k].to # {}

(* C7: when the receiver of a direct-channel event is registered in both   *)
(* spaces with different handles, the event is delivered once, to the      *)
(* user-space handle, and the expert-space handle receives nothing.        *)
C7_UserSpaceFirst ==
  (/\ last.op \in DirectEventOps \cup DirectCommandOps
   /\ last.ok
   /\ InUserSpace(last.b) /\ InExpertSpace(last.b)
   /\ getReceiverSocketId(last.b) # getExpertSocketId(last.b))
    => /\ Len(delivered) = 1
       /\ delivered[1].to = {getReceiverSocketId(last.b)}

\* messageEdited for e1, registered as a user by one socket and as an expert
\* by another
C7_Witness ==
  /\ last.op = "on:messageEdited"
  /\ last.b = E1
  /\ InUserSpace(E1) /\ InExpertSpace(E1)
  /\ getReceiverSocketId(E1) # getExpertSocketId(E1)
  /\ Len(delivered) = 1
  /\ delivered[1].to = {getReceiverSocketId(E1)}

(* C8: a client event of the direct channel reaches no connection besides  *)
(* the one its receiver resolves to; sendMessage from user u1's connection *)
(* for receiver e1, an expert, gives newMessage with receiverId e1 to e1's *)
(* connection alone.                                                       *)
C8_OnlyTheReceiver ==
  /\ last.op \in DirectEventOps
       => \A k \in 1..Len(delivered) :
            delivered[k].to = {ReceiverSocketId(last.b)}
  /\ (/\ last.op = "on:sendMessage"
      /\ getReceiverSocketId(U1) = last.sock
      /\ last.b = E1
      /\ InExpertSpace(E1) /\ ~InUserSpace(E1))
       => /\ Len(delivered) = 1
          /\ delivered[1].event = "newMessage"
          /\ delivered[1].receiverId = E1
          /\ delivered[1].to = {getExpertSocketId(E1)}

\* the scenario: A is user u1, B is expert e1, A sends to e1
C8_Witness ==
  /\ last.op = "on:sendMessage"
  /\ getReceiverSocketId(U1) = last.sock
  /\ last.b = E1
  /\ InExpertSpace(E1) /\ ~InUserSpace(E1)
  /\ getExpertSocketId(E1) # last.sock
  /\ Len(delivered) = 1
  /\ delivered[1].to = {getExpertSocketId(E1)}

(* C9: the room key computed for (a, b) is the key computed for (b, a).    *)
C9_RoomKeySymmetric ==
  roomId # Undefined => roomId = RoomKey(args[2], args[1])

\* a key whose identities were given in descending order
C9_Witness ==
  /\ args = <<<<"b">>, <<"a", "-">>>>
  /\ roomId = <<"a", "-", "-", "b">>

(* C10: the room key names one unordered pair: two identities that give    *)
(* the key computed for (a, b) are a and b.                                *)
C10_RoomKeyInjective ==
  (roomId # Undefined /\ args[1] \in Tokens /\ args[2] \in Tokens)
    => \A c \in Tokens, d \in Tokens :
         RoomKey(c, d) = roomId => {c, d} = {args[1], args[2]}

RoomEventOps == {"on:expertMessageEdited", "on:expertMessageDeleted",
                 "on:allExpertMessagesDeleted", "on:conversationDeleted"}

\* the connections that joined a room and are live
Joined(key) == {s \in connected : key \in rooms[s] \ {s}}

(* C11: an event emitted to a room key is delivered to every live          *)
(* connection that joined the key and to no other, whatever the order of   *)
(* the joins (a join adds the key to the joining connection's rooms and    *)
(* changes no other membership); when e1's and e2's connections both       *)
(* joined their room, an edit event of the pair goes once to each of them  *)
(* and to no third connection.                                             *)
C11_RoomDelivery ==
  /\ []((last.op \in RoomEventOps \cup {"sendExpertMessage"} /\ last.ok)
         => /\ Len(delivered) = 1
            /\ delivered[1].room = RoomKey(last.a, last.b)
            /\ delivered[1].to = Joined(RoomKey(last.a, last.b)))
  /\ [][last'.op = "joinRoom"
          => /\ connected' = connected
             /\ \A s \in connected :
                  rooms'[s] = IF s = last'.sock
                              THEN rooms[s] \cup {last'.a} ELSE rooms[s]]_vars
  /\ []((/\ last.op = "on:expertMessageEdited"
          /\ {last.a, last.b} = {E1, E2}
          /\ InExpertSpace(E1) /\ InExpertSpace(E2)
          /\ {getExpertSocketId(E1), getExpertSocketId(E2)}
                \subseteq Joined(RoomKey(E1, E2)))
         => /\ Len(delivered) = 1
            /\ {getExpertSocketId(E1), getExpertSocketId(E2)} \subseteq delivered[1].to
            /\ \A s \in connected \ Joined(RoomKey(E1, E2)) : s \notin delivered[1].to)

\* the scenario: e2 joined before e1, a third connection joined another room
C11_Witness ==
  /\ last.op = "on:expertMessageEdited"
  /\ last.a = E2 /\ last.b = E1
  /\ InExpertSpace(E1) /\ InExpertSpace(E2)
  /\ getExpertSocketId(E2) = SocketId(1)
  /\ getExpertSocketId(E1) = SocketId(2)
  /\ Joined(RoomKey(E1, E2)) = {SocketId(1), SocketId(2)}
  /\ SocketId(3) \in connected
  /\ RoomKey(U1, E1) \in rooms[SocketId(3)]
  /\ Len(delivered) = 1
  /\ delivered[1].to = {SocketId(1), SocketId(2)}

ExpertPairOps == {"sendExpertMessage", "on:expertMessageEdited",
                  "on:expertMessageDeleted"}

(* C12: newExpertMessage, expertMessageEdited and expertMessageDeleted of  *)
(* a pair reach only connections that joined the pair's room before the    *)
(* event was routed: membership of a room comes from that connection's own *)
(* joinRoom and from nothing else, and a connection that is registered as  *)
(* an expert and has not joined receives nothing.                          *)
C12_JoinBeforeDelivery ==
  /\ [](last.op \in ExpertPairOps
         => \A k \in 1..Len(delivered) : \A s \in connected :
              /\ s \in delivered[k].to => RoomKey(last.a, last.b) \in rooms[s] \ {s}
              /\ (s \in {getExpertSocketId(last.a), getExpertSocketId(last.b)}
                   /\ RoomKey(last.a, last.b) \notin rooms[s])
                    => s \notin delivered[k].to)
  /\ [][\A s \in connected' :
          \A key \in rooms'[s] \ {s} :
            (s \notin connected \/ key \notin rooms[s])
              => last'.op = "joinRoom" /\ last'.sock = s /\ last'.a = key]_vars

\* newExpertMessage for e2, who is registered and has not joined, while the
\* sender e1 has
C12_Witness ==
  /\ last.op = "sendExpertMessage"
  /\ last.ok
  /\ last.a = E1 /\ last.b = E2
  /\ InExpertSpace(E1) /\ InExpertSpace(E2)
  /\ getExpertSocketId(E2) \in connected
  /\ RoomKey(E1, E2) \notin rooms[getExpertSocketId(E2)]
  /\ Len(delivered) = 1
  /\ delivered[1].to = {getExpertSocketId(E1)}

\* what socket s had received before this step
Before(s) == IF s \in connected THEN inbox[s] ELSE <<>>

\* socket s is sent an event by the handler of this step
Addressed(s) == \E k \in 1..Len(delivered') : s \in delivered'[k].to

(* C13: an event of the direct channel (client event, HTTP sendMessage     *)
(* that reached its emit) is delivered to a connection if and only if that *)
(* connection is what the receiver is registered with when the event is    *)
(* routed; a receiver that is registered is delivered to; and a connection *)
(* receives events only in the step that routes them: what was routed      *)
(* earlier, while the target was offline, arrives at no later connection.  *)
C13_BestEffort ==
  [][/\ (last'.op \in DirectEventOps \cup {"sendMessage"} /\ last'.ok)
          => /\ \A s \in connected' :
                  Addressed(s) => s \in {getReceiverSocketId(last'.b),
                                         getExpertSocketId(last'.b)}
             /\ (InUserSpace(last'.b) \/ InExpertSpace(last'.b))
                  => \E s \in connected' :
                       /\ Addressed(s)
                       /\ s \in {getReceiverSocketId(last'.b),
                                  getExpertSocketId(last'.b)}
     /\ \A s \in connected' :
          /\ Len(inbox'[s]) >= Len(Before(s))
          /\ SubSeq(inbox'[s], 1, Len(Before(s))) = Before(s)
          /\ \A i \in (Len(Before(s)) + 1)..Len(inbox'[s]) :
               inbox'[s][i].no > routed /\ Addressed(s)]_vars

\* the events that socket s received from a sender, in the order of arrival
From(s, sender) ==
  LET theirs(e) == e.senderId = sender IN SelectSeq(inbox[s], theirs)

NoClaim == {Undefined, EmptyString, Placeholder}

(* C15: a connection whose claim for a space is absent, empty or the       *)
(* placeholder "undefined" leaves that space's registry as it was and      *)
(* causes no presence broadcast for that space, in the room-based relay    *)
(* and in the direct-delivery relay.                                       *)
C15_NoClaimNoEntry ==
  [][\A h \in Arrived :
       /\ handshake'[h][1] \in NoClaim
            => /\ userSocketMap' = userSocketMap
               /\ Broadcasts(presence', "getOnlineUsers") = {}
       /\ handshake'[h][2] \in NoClaim
            => /\ expertSocketMap' = expertSocketMap
               /\ Broadcasts(presence', "getOnlineExperts") = {}]_vars

\* the entries of a registry whose value is not socket h
Without(m, h) == LET others(e) == e.val # h IN SelectSeq(m, others)

\* positions of the entries of a registry whose value is socket h
Held(m, h) == {i \in 1..Len(m) : m[i].val = h}

(* C16: when connection h disconnects, each registry loses the entry whose *)
(* value is h, if it has one, and keeps every other entry in place; the    *)
(* handler broadcasts a space's list exactly when it removed an entry of   *)
(* that space, so the disconnect of a connection that no entry names       *)
(* changes neither registry and broadcasts nothing.                        *)
C16_DisconnectFrame ==
  [][\A h \in Departed :
       /\ Cardinality(Held(userSocketMap, h)) <= 1
       /\ Cardinality(Held(expertSocketMap, h)) <= 1
       /\ userSocketMap' = Without(userSocketMap, h)
       /\ expertSocketMap' = Without(expertSocketMap, h)
       /\ Broadcasts(presence', "getOnlineUsers") # {} <=> Held(userSocketMap, h) # {}
       /\ Broadcasts(presence', "getOnlineExperts") # {}
            <=> Held(expertSocketMap, h) # {}
       /\ Len(presence') = Cardinality(Held(userSocketMap, h))
                             + Cardinality(Held(expertSocketMap, h))]_vars

\* a connection that claimed u1 and e1 has disconnected after another one
\* took e1 over: the users' list was sent, the experts' list was not
C16_Witness ==
  /\ last.op = "disconnect"
  /\ last.a = U1 /\ last.b = E1
  /\ ~InUserSpace(U1)
  /\ InExpertSpace(E1)
  /\ Broadcasts(presence, "getOnlineUsers") # {}
  /\ Broadcasts(presence, "getOnlineExperts") = {}

\* a confirmed session between experts a and b is stored
Confirmed(a, b) ==
  \E d \in sessions :
    d.status = "confirmed" /\ {d.consultingExpertID, d.expertId} = {a, b}

(* C17: an HTTP command handler emits an expert-to-expert event for the    *)
(* pair (sender, receiver) only if a confirmed session between these two   *)
(* experts exists.                                                         *)
C17_SessionOfThePair ==
  (last.op = "sendExpertMessage" /\ delivered # <<>>)
    => Confirmed(last.a, last.b)

(* C18: an expert-to-expert event that the router emits to a room for a    *)
(* client socket event is preceded by a confirmation of the session gate   *)
(* for the pair of the event, so a confirmed session of that pair exists.  *)
C18_GatedSocketEvents ==
  (last.op \in RoomEventOps /\ delivered # <<>>)
    => Confirmed(last.a, last.b)

(* C19: a newMessage, messageEdited or messageDeleted event that is        *)
(* delivered to a connection belongs to a store operation that succeeded   *)
(* before the event was routed: the message of that pair was persisted,    *)
(* updated or deleted; nothing is routed for an operation that failed or   *)
(* that was never performed.                                               *)
C19_CommittedBeforeRouted ==
  \A k \in 1..Len(delivered) :
    (/\ delivered[k].event \in {"newMessage", "messageEdited", "messageDeleted"}
     /\ delivered[k].to # {})
      => <<delivered[k].event, last.a, last.b>> \in committed

(* C20: what an HTTP sendMessage answers its sender (status and body) is   *)
(* the same with the receiver online and offline: the answer to a request  *)
(* is the answer the same request gets when the receiver is not            *)
(* registered.                                                             *)
C20_SameReply ==
  last.op = "sendMessage"
    => reply = sendMessageResponse(request.senderId, request.receiverId,
                                   request.text, request.inserted, Undefined)

\* a message for e1 was stored while e1 was online, and was delivered
C20_Witness ==
  /\ last.op = "sendMessage"
  /\ last.b = E1
  /\ request.receiverSocketId \in connected
  /\ Len(delivered) = 1
  /\ delivered[1].to = {request.receiverSocketId}
  /\ reply.status = 201

\* connection s claimed identity i and every space it claimed i in maps i to
\* another connection
Superseded(s, i) ==
  /\ s \in connected
  /\ Registers(i)
  /\ i \in Range(handshake[s])
  /\ handshake[s][1] = i => getReceiverSocketId(i) \notin {s, Undefined}
  /\ handshake[s][2] = i => getExpertSocketId(i) \notin {s, Undefined}

(* C21: a second connection for an identity does not close the first: the  *)
(* connection step leaves every connection connected and in its rooms; the *)
(* superseded connection is sent every presence broadcast and the events   *)
(* of the rooms it joined, and no event of the direct channel addressed to *)
(* the identity, which goes to the newer connection alone.                 *)
C21_SupersededStaysLive ==
  /\ [][last'.op = "connection"
          => /\ connected \subseteq connected'
             /\ \A s \in connected : rooms'[s] = rooms[s]]_vars
  /\ [](\A s \in connected : \A i \in Idents :
          Superseded(s, i)
            => /\ \A k \in 1..Len(presence) : s \in presence[k].to
               /\ last.op \in RoomEventOps
                    => \A k \in 1..Len(delivered) :
                         s \in delivered[k].to <=> delivered[k].room \in rooms[s]
               /\ (last.op \in DirectEventOps /\ last.b = i)
                    => /\ Len(delivered) = 1
                       /\ s \notin delivered[1].to
                       /\ delivered[1].to = {ReceiverSocketId(i)})

\* e1's first connection, superseded and in the room, is passed over by a
\* newMessage for e1
C21_Witness ==
  /\ last.op = "on:sendMessage"
  /\ last.b = E1
  /\ Superseded(SocketId(1), E1)
  /\ RoomKey(E1, E2) \in rooms[SocketId(1)]
  /\ getExpertSocketId(E1) = SocketId(2)
  /\ Len(delivered) = 1
  /\ delivered[1].to = {SocketId(2)}

\* the handles a registry holds
Handles(m) == {m[i].val : i \in 1..Len(m)}

(* C22: every handle stored in the user registry or in the expert registry *)
(* is the handle of a connection that is still connected.                  *)
C22_HandlesLive ==
  /\ Handles(userSocketMap) \subseteq connected
  /\ Handles(expertSocketMap) \subseteq connected

\* a registered connection has gone and took its entry with it, while another
\* connection is still registered
C22_Witness ==
  /\ last.op = "disconnect"
  /\ Registers(last.a) \/ Registers(last.b)
  /\ last.sock \notin connected
  /\ last.sock \notin Handles(userSocketMap) \cup Handles(expertSocketMap)
  /\ Handles(userSocketMap) \cup Handles(expertSocketMap) # {}

(* C23: an identity that some connected connection has claimed in a space  *)
(* is a key of that space's registry, and lookup resolves it to a          *)
(* connected handle; so it is still after the newer of two claimants has   *)
(* disconnected.                                                           *)
C23_ClaimedStaysRegistered ==
  \A s \in connected :
    /\ Registers(handshake[s][1])
         => /\ handshake[s][1] \in Keys(userSocketMap)
            /\ getReceiverSocketId(handshake[s][1]) \in connected
    /\ Registers(handshake[s][2])
         => /\ handshake[s][2] \in Keys(expertSocketMap)
            /\ getExpertSocketId(handshake[s][2]) \in connected

\* the connection h is the one both of its identities resolve to
CurrentInBoth(h) ==
  /\ getReceiverSocketId(handshake[h][1]) = h
  /\ getExpertSocketId(handshake[h][2]) = h

\* connections whose handshake carries a user identity and an expert identity
Dual(hs, live) == {h \in live : Registers(hs[h][1]) /\ Registers(hs[h][2])}

\* a connection with both identities is registered in both spaces under its
\* handle, and both lists are broadcast
DualConnect ==
  \A h \in Arrived \cap Dual(handshake', connected') :
    /\ MapGet(userSocketMap', handshake'[h][1]) = h
    /\ MapGet(expertSocketMap', handshake'[h][2]) = h
    /\ Broadcasts(presence', "getOnlineUsers") # {}
    /\ Broadcasts(presence', "getOnlineExperts") # {}

\* the disconnect of a connection with both identities empties both spaces of
\* it and broadcasts both lists
DualDisconnect(h) ==
  /\ h \notin Handles(userSocketMap') \cup Handles(expertSocketMap')
  /\ handshake[h][1] \notin Keys(userSocketMap')
  /\ handshake[h][2] \notin Keys(expertSocketMap')
  /\ Broadcasts(presence', "getOnlineUsers") # {}
  /\ Broadcasts(presence', "getOnlineExperts") # {}

(* C24 as stated: a connection with a user identity and an expert identity *)
(* is registered in both spaces under one handle with both presence        *)
(* broadcasts; when it disconnects it is removed from both spaces and both *)
(* presence broadcasts are emitted.                                        *)
C24_DualAlways ==
  [][/\ DualConnect
     /\ \A h \in Departed \cap Dual(handshake, connected) : DualDisconnect(h)]_vars

(* C24: a connection with a user identity and an expert identity is        *)
(* registered in both spaces under one handle with both presence           *)
(* broadcasts; when it disconnects while both identities still resolve to  *)
(* it, it is removed from both spaces and both presence broadcasts are     *)
(* emitted; a space whose identity resolves to another connection by then  *)
(* is left as it is, without a broadcast.                                  *)
C24_DualWhileCurrent ==
  [][/\ DualConnect
     /\ \A h \in Departed \cap Dual(handshake, connected) :
          /\ CurrentInBoth(h) => DualDisconnect(h)
          /\ h \notin Handles(userSocketMap') \cup Handles(expertSocketMap')
          /\ getReceiverSocketId(handshake[h][1]) # h
               => /\ userSocketMap' = userSocketMap
                  /\ Broadcasts(presence', "getOnlineUsers") = {}
          /\ getExpertSocketId(handshake[h][2]) # h
               => /\ expertSocketMap' = expertSocketMap
                  /\ Broadcasts(presence', "getOnlineExperts") = {}]_vars

\* a connection of user u1 and expert e1 has left both spaces, with both
\* lists broadcast to the connection that stays
C24_Witness ==
  /\ last.op = "disconnect"
  /\ last.a = U1
  /\ last.b = E1
  /\ U1 \notin Keys(userSocketMap)
  /\ E1 \notin Keys(expertSocketMap)
  /\ \E k \in Broadcasts(presence, "getOnlineUsers") : presence[k].to # {}
  /\ \E k \in Broadcasts(presence, "getOnlineExperts") : presence[k].to # {}

(* C25: joinRoom is idempotent: a joinRoom for a room the connection is in *)
(* already changes no membership, and an event emitted to a room goes      *)
(* exactly once to a connection that joined the room more than once.       *)
C25_JoinIdempotent ==
  /\ [][(last'.op = "joinRoom" /\ last'.a \in rooms[last'.sock])
          => rooms' = rooms]_vars
  /\ [](\A k \in 1..Len(delivered) : \A s \in connected :
          <<s, delivered[k].room>> \in joinLog.rejoined
            => /\ s \in delivered[k].to
               /\ Len(Packets(<<delivered[k]>>, 0, s)) = 1)

\* the first connection joined the room of e1 and e2 twice and is sent one
\* packet of an edit in that room
C25_Witness ==
  /\ last.op = "on:expertMessageEdited"
  /\ <<SocketId(1), RoomKey(E1, E2)>> \in joinLog.rejoined
  /\ Len(delivered) = 1
  /\ delivered[1].room = RoomKey(E1, E2)
  /\ Len(Packets(delivered, 0, SocketId(1))) = 1

(* C26: room membership ends with the connection: a disconnected           *)
(* connection has no rooms and is sent no room event, a new connection     *)
(* starts in no room but its own, and a room event goes to a connection    *)
(* only if that connection itself joined the room, whatever rooms an       *)
(* earlier connection of the same expert had joined.                       *)
C26_MembershipEndsWithConnection ==
  /\ [](/\ DOMAIN rooms = connected
        /\ \A k \in 1..Len(delivered) : delivered[k].to \subseteq connected)
  /\ [][/\ \A h \in Arrived : rooms'[h] = {h}
        /\ \A h \in connected' \cap connected :
             (rooms'[h] # rooms[h]) => (last'.op = "joinRoom" /\ last'.sock = h)]_vars
  /\ []((last.op \in RoomEventOps \cup {"sendExpertMessage"} /\ last.ok)
          => \A k \in 1..Len(delivered) : \A s \in connected :
               s \in delivered[k].to <=> delivered[k].room \in rooms[s])

\* a connection of e1 joined the room and went; the next connection of e1 has
\* not joined, and an edit in the room goes to the other member only
C26_Witness ==
  /\ last.op = "on:expertMessageEdited"
  /\ <<E1, RoomKey(E1, E2)>> \in joinLog.dropped
  /\ Len(delivered) = 1
  /\ delivered[1].room = RoomKey(E1, E2)
  /\ delivered[1].to # {}
  /\ getExpertSocketId(E1) \in connected \ delivered[1].to

\* connections that registered none of the two identities of the pair
Outsiders(a, b) ==
  {s \in connected : getExpertSocketId(a) # s /\ getExpertSocketId(b) # s}

(* C27: joinRoom checks nothing: whatever the connection registered, the   *)
(* call succeeds and leaves the connection in the requested room, and      *)
(* every event emitted to a room is delivered to every connection in it,   *)
(* those that registered neither identity of the key included.             *)
C27_JoinUnchecked ==
  /\ [][last'.op = "joinRoom"
          => /\ last'.ok
             /\ last'.a \in rooms'[last'.sock]]_vars
  /\ []((last.op \in RoomEventOps \cup {"sendExpertMessage"} /\ last.ok)
          => \A k \in 1..Len(delivered) :
               Joined(delivered[k].room) \subseteq delivered[k].to)

\* a connection that registered no identity joined the room of e1 and e2 and
\* is sent an edit of that room
C27_Witness ==
  /\ last.op = "on:expertMessageEdited"
  /\ Len(delivered) = 1
  /\ delivered[1].room = RoomKey(E1, E2)
  /\ \E s \in delivered[1].to \cap Outsiders(E1, E2) :
       handshake[s] = <<Undefined, Undefined>>

\* the call carried no payload, or one without the identities, or a room key
\* that is the key of no pair
Malformed(call) ==
  IF call.op = "joinRoom"
  THEN call.a \notin {RoomKey(p[1], p[2]) : p \in RoomPairs}
  ELSE call.a = Undefined /\ call.b = Undefined

(* C28: a client event (joinRoom, sendMessage, messageEdited,              *)
(* messageDeleted, allMessagesDeleted, expertMessageEdited,                *)
(* expertMessageDeleted, allExpertMessagesDeleted, conversationDeleted)    *)
(* whose payload is missing or malformed raises no error, delivers         *)
(* nothing, and leaves both registries and every room membership as they   *)
(* were.                                                                   *)
C28_MalformedIsNoOp ==
  [][(last'.op \in ClientEvents \cup {"joinRoom"} /\ Malformed(last'))
       => /\ last'.ok
          /\ Deliveries(delivered') = 0
          /\ userSocketMap' = userSocketMap
          /\ expertSocketMap' = expertSocketMap
          /\ rooms' = rooms]_vars

\* identity i, registered in some space, is sent one of the handler's events
Reached(i) ==
  (InUserSpace(i) \/ InExpertSpace(i))
    => \E k \in 1..Len(delivered) :
         /\ delivered[k].event = "messageEdited"
         /\ delivered[k].room \in {getReceiverSocketId(i), getExpertSocketId(i)}
         /\ delivered[k].to # {}

(* C29: after an editMessage that succeeded, messageEdited is delivered to *)
(* the sender and to the receiver of the message, each if registered, in   *)
(* the user space or in the expert space.                                  *)
C29_EditReachesBoth ==
  (last.op = "editMessage" /\ last.ok) => (Reached(last.a) /\ Reached(last.b))

\* the messages a request is aimed at
Targets(r) ==
  IF r.op = "deleteAllMessage"
  THEN {m \in messages : m.senderId = r.senderID /\ m.receiverId = r.reciverID}
  ELSE FindById(r.messageID)

(* C30: only the sender of a message may delete or edit it: a message that *)
(* deleteOneMessage, deleteAllMessage or editMessage removes or changes    *)
(* was sent by the caller, and a request aimed at a message of another     *)
(* sender is refused, leaves the store as it is, and emits no              *)
(* messageDeleted, allMessagesDeleted or messageEdited.                    *)
C30_OnlyTheSender ==
  [][last'.op \in {"deleteOneMessage", "deleteAllMessage", "editMessage"}
       => /\ \A m \in messages \ messages' : m.senderId = request'.userId
          /\ (\E m \in Targets(request') : m.senderId # request'.userId)
               => /\ ~last'.ok
                  /\ messages' = messages
                  /\ delivered' = <<>>]_vars

\* the requests of an operation on a message
Requests(ops, messageID) ==
  {t \in DOMAIN tasks : tasks[t].op \in ops /\ tasks[t].messageID = messageID}

\* the emits request t made
EmitsOf(t) == {k \in 1..Len(journal) : journal[k].task = t}

(* C31: of the concurrent deleteOneMessage (deleteExpertMessage) requests   *)
(* of the sender for one message, at most one removed the message and made  *)
(* emits, at most one messageDeleted (expertMessageDeleted) is emitted, and *)
(* every other request that has answered answered alreadyDeleted and        *)
(* emitted nothing; when all have answered, one of them removed it.         *)
C31_DeletedOnce ==
  \A id \in MessageIds :
    LET same == Requests(DeleteOps, id)
        won == {t \in same : tasks[t].reply = "deleted"}
    IN /\ Cardinality(won) <= 1
       /\ Cardinality({k \in 1..Len(journal) :
                         /\ journal[k].task \in same
                         /\ journal[k].event \in {"messageDeleted",
                                                  "expertMessageDeleted"}}) <= 1
       /\ \A t \in same \ won :
            /\ EmitsOf(t) = {}
            /\ tasks[t].pc = "done" => tasks[t].reply = "alreadyDeleted"
       /\ \A t \in won : tasks[t].count = 1 /\ FindById(id) = {}
       /\ (same # {} /\ \A t \in same : tasks[t].pc = "done")
            => (FindById(id) = {} /\ won # {})

\* both requests are deleteOneMessage of m1 and both passed findOne before
\* either deleted; one answered deleted with one emit, the other alreadyDeleted
C31_Witness ==
  /\ \A t \in 1..MaxTasks :
       /\ tasks[t].op = "deleteOneMessage"
       /\ tasks[t].pc = "done"
       /\ tasks[t].receiverId = E1
  /\ tasks[1].reply = "alreadyDeleted"
  /\ tasks[2].reply = "deleted"
  /\ Len(journal) = 1
  /\ journal[1].event = "messageDeleted"
  /\ journal[1].to # {}

(* C32: an editMessage request that ran beside a deleteOneMessage of the   *)
(* same message and has answered: if its update modified the record, it    *)
(* answered success and emitted messageEdited to the receiver's socket     *)
(* when the receiver was registered; if the update modified nothing, it     *)
(* answered failure and emitted nothing.                                    *)
C32_EditBesideDelete ==
  \A t \in DOMAIN tasks :
    (tasks[t].op = "editMessage" /\ tasks[t].pc = "done")
      => /\ tasks[t].count # 0
              => /\ tasks[t].reply = "success"
                 /\ Truthy(tasks[t].receiverSocketId)
                      => \E k \in EmitsOf(t) :
                           /\ journal[k].event = "messageEdited"
                           /\ journal[k].room = tasks[t].receiverSocketId
         /\ tasks[t].count = 0
              => /\ tasks[t].reply = "failure"
                 /\ EmitsOf(t) = {}

(* C33: the newMessage events of the sendMessage requests of one sender   *)
(* to one receiver are emitted in the order of the createdAt of their      *)
(* messages, which is the order getMessages returns them in.               *)
C33_EmittedInStoredOrder ==
  \A i \in 1..Len(journal) : \A j \in (i + 1)..Len(journal) :
    (/\ journal[i].event = "newMessage"
     /\ journal[j].event = "newMessage"
     /\ journal[i].to = journal[j].to)
      => tasks[journal[i].task].createdAt <= tasks[journal[j].task].createdAt

(* C34: a newMessage that the socket sendMessage handler delivers carries, *)
(* as senderId, an identity that the emitting connection is registered     *)
(* under, in the user space or in the expert space.                        *)
C34_SenderIsEmitter ==
  last.op = "on:sendMessage"
    => \A k \in 1..Len(delivered) :
         (delivered[k].event = "newMessage" /\ delivered[k].to # {})
           => last.sock \in {getReceiverSocketId(delivered[k].senderId),
                             getExpertSocketId(delivered[k].senderId)}

(* C35: for every connected socket the payload of the last getOnlineUsers  *)
(* broadcast it was sent is the key list of the user registry, and that of *)
(* the last getOnlineExperts the key list of the expert registry; so for a *)
(* socket that connected after the space last changed.                     *)
C35_ViewCurrent ==
  \A s \in connected :
    /\ Current(seen[s].users, userSocketMap)
    /\ Current(seen[s].experts, expertSocketMap)

\* the identities a registry maps to handle h
IdentitiesOf(m, h) == {m[i].key : i \in {j \in 1..Len(m) : m[j].val = h}}

(* C36: a connection handle is the value of at most one identity in the    *)
(* user registry and of at most one in the expert registry, so that after  *)
(* the disconnect handler's first-match search and delete no entry of      *)
(* either registry refers to the connection that closed.                   *)
C36_OneIdentityPerHandle ==
  /\ [](\A h \in Sockets(nextSocket) :
          /\ Cardinality(IdentitiesOf(userSocketMap, h)) <= 1
          /\ Cardinality(IdentitiesOf(expertSocketMap, h)) <= 1)
  /\ [][\A h \in Departed :
          /\ IdentitiesOf(userSocketMap', h) = {}
          /\ IdentitiesOf(expertSocketMap', h) = {}
          /\ \A i \in IdentitiesOf(userSocketMap, h) : i \notin Keys(userSocketMap')
          /\ \A i \in IdentitiesOf(expertSocketMap, h) :
               i \notin Keys(expertSocketMap')]_vars

\* a connection registered as a user and as an expert has closed, and the
\* other connection keeps its one entry in each registry
C36_Witness ==
  /\ last.op = "disconnect"
  /\ Registers(last.a) /\ Registers(last.b)
  /\ \E h \in connected :
       /\ Cardinality(IdentitiesOf(userSocketMap, h)) = 1
       /\ Cardinality(IdentitiesOf(expertSocketMap, h)) = 1
  /\ IdentitiesOf(userSocketMap, last.sock) = {}
  /\ IdentitiesOf(expertSocketMap, last.sock) = {}

\* the HTTP command handlers, all of which emit
CommandOps == DirectCommandOps \cup {"editMessage", "sendExpertMessage"}

(* C37: routing changes neither presence nor membership: the eight client  *)
(* event handlers of the two channels and the HTTP command handlers leave  *)
(* the user registry, the expert registry, the connected sockets and every *)
(* socket's rooms as they were and emit no presence broadcast.             *)
C37_RoutingFrame ==
  [][last'.op \in DirectEventOps \cup RoomEventOps \cup CommandOps
       => /\ userSocketMap' = userSocketMap
          /\ expertSocketMap' = expertSocketMap
          /\ connected' = connected
          /\ rooms' = rooms
          /\ presence' = <<>>
          /\ lastOnlineUsers' = lastOnlineUsers
          /\ lastOnlineExperts' = lastOnlineExperts]_vars

\* an HTTP sendMessage reached e1's socket while e1 is registered and a
\* socket is in a room; no broadcast came with it
C37_Witness ==
  /\ last.op = "sendMessage"
  /\ last.ok
  /\ Deliveries(delivered) = 1
  /\ presence = <<>>
  /\ userSocketMap # <<>>
  /\ \E s \in connected : rooms[s] # {s}

(* C38: uploadVoiceMessage is all-or-nothing: when it has answered with    *)
(* anything but 201, the uploaded file is not on disk, neither the voice   *)
(* document nor the message of the upload is in the store, and the request *)
(* emitted no newMessage.                                                   *)
C38_AllOrNothing ==
  \A t \in DOMAIN tasks :
    (/\ tasks[t].op = "uploadVoiceMessage"
     /\ tasks[t].pc = "done"
     /\ tasks[t].reply # "201")
      => /\ ~tasks[t].file
         /\ VoiceDoc(t) \notin messages
         /\ VoiceMessage(t) \notin messages
         /\ EmitsOf(t) = {}

(* C39: for every Range header and every file size, 0 included, a range   *)
(* request is answered with 0 <= start <= end <= fileSize - 1 and          *)
(* Content-Length = end - start + 1 <= fileSize.                           *)
C39_RangeWithinFile ==
  reply.status = 206
    => /\ 0 <= reply.start
       /\ reply.start <= reply.end
       /\ reply.end <= request.fileSize - 1
       /\ reply.length = reply.end - reply.start + 1
       /\ reply.length <= request.fileSize

====
